---------------------------- MODULE Spec2Model ----------------------------
(***************************************************************************)
(* Job orchestration and preview caching of the compressO batch view:     *)
(* BatchConfig (handleStartBatch, handleCancelBatch, buildOutputPath,      *)
(* handleScheduleShutdown), QualityPreviewAction (handleGeneratePreview)   *)
(* and ShutdownCountdownModal, over the valtio store videoProxy.state.     *)
(*                                                                         *)
(* Text is a sequence of symbols.  A symbol is one character, except that  *)
(* a word that no function of the program ever splits ("mp4", "mkv") is    *)
(* kept as one symbol.                                                     *)
(***************************************************************************)
EXTENDS Integers, Sequences, FiniteSets, TLC

Null == "null"

------------------------------------------------------------------------------
(* Text helpers (JavaScript String methods used by the path functions).     *)

Range(s) == {s[i] : i \in 1..Len(s)}

Max(a, b) == IF a >= b THEN a ELSE b

Min(a, b) == IF a <= b THEN a ELSE b

\* String.prototype.lastIndexOf, 0-based, -1 when absent.
LastIndexOf(s, c) ==
  LET hits == {i \in 1..Len(s) : s[i] = c}
  IN  IF hits = {} THEN -1 ELSE (CHOOSE i \in hits : \A j \in hits : j <= i) - 1

\* String.prototype.slice(from, to) with 0-based, non-negative bounds.
Slice(s, from, to) == SubSeq(s, from + 1, to)

SliceFrom(s, from) == SubSeq(s, from + 1, Len(s))

\* String.prototype.toLowerCase on the symbols of the model.
LowerSym(c) == IF c = "MP4" THEN "mp4" ELSE IF c = "A" THEN "a" ELSE c

ToLowerCase(s) == [i \in 1..Len(s) |-> LowerSym(s[i])]

EndsWith(s, suffix) ==
  /\ Len(suffix) <= Len(s)
  /\ SubSeq(s, Len(s) - Len(suffix) + 1, Len(s)) = suffix

\* String.prototype.trim: whitespace is the symbol " ".
RECURSIVE TrimStart(_)
TrimStart(s) == IF s # <<>> /\ Head(s) = " " THEN TrimStart(Tail(s)) ELSE s

RECURSIVE TrimEnd(_)
TrimEnd(s) ==
  IF s # <<>> /\ s[Len(s)] = " " THEN TrimEnd(SubSeq(s, 1, Len(s) - 1)) ELSE s

Trim(s) == TrimEnd(TrimStart(s))

\* Template-literal formatting of a non-negative integer, `${index}`.
DigitSym(d) == <<"0", "1", "2", "3", "4", "5", "6", "7", "8", "9">>[d + 1]

RECURSIVE NumberToString(_)
NumberToString(n) ==
  IF n < 10 THEN <<DigitSym(n)>>
  ELSE NumberToString(n \div 10) \o <<DigitSym(n % 10)>>

------------------------------------------------------------------------------
(* Path functions of BatchConfig.                                           *)

ForbiddenNameChars == {"<", ">", ":", "\"", "/", "\\", "|", "?", "*"}

sanitizeNamePart(value) ==
  Trim(SelectSeq(value, LAMBDA c : c \notin ForbiddenNameChars))

getSeparator(path) == IF "\\" \in Range(path) THEN "\\" ELSE "/"

joinPath(dir, fileName) ==
  IF dir = <<>> THEN fileName
  ELSE LET separator  == getSeparator(dir)
           normalized ==
             IF dir[Len(dir)] \in {"/", "\\"}
             THEN Slice(dir, 0, Len(dir) - 1) ELSE dir
       IN  normalized \o <<separator>> \o fileName

getDirname(path) ==
  LET idx == Max(LastIndexOf(path, "/"), LastIndexOf(path, "\\"))
  IN  IF idx <= 0 THEN <<>> ELSE Slice(path, 0, idx)

getFileStem(fileName, extension) ==
  IF extension = <<>>
  THEN LET dotIndex == LastIndexOf(fileName, ".")
       IN  IF dotIndex > 0 THEN Slice(fileName, 0, dotIndex) ELSE fileName
  ELSE LET suffix == <<".">> \o extension
       IN  IF EndsWith(ToLowerCase(fileName), ToLowerCase(suffix))
           THEN Slice(fileName, 0, Len(fileName) - Len(suffix))
           ELSE fileName

appendIndexToPath(path, index) ==
  LET separatorIndex == Max(LastIndexOf(path, "/"), LastIndexOf(path, "\\"))
      dir      == IF separatorIndex >= 0 THEN Slice(path, 0, separatorIndex)
                  ELSE <<>>
      fileName == IF separatorIndex >= 0 THEN SliceFrom(path, separatorIndex + 1)
                  ELSE path
      dotIndex == LastIndexOf(fileName, ".")
      stem     == IF dotIndex > 0 THEN Slice(fileName, 0, dotIndex) ELSE fileName
      ext      == IF dotIndex > 0 THEN SliceFrom(fileName, dotIndex + 1) ELSE <<>>
      newName  == IF ext # <<>>
                  THEN stem \o <<"_">> \o NumberToString(index) \o <<".">> \o ext
                  ELSE stem \o <<"_">> \o NumberToString(index)
  IN  IF dir # <<>> THEN joinPath(dir, newName) ELSE newName


\* resolveUniquePath's retry ceiling.
RetryCeiling == 1000

\* pathExists(path): getFileMetadata(path) resolved.  fs is the set of paths
\* for which the metadata probe succeeds while the path is being resolved.
pathExists(path, fs) == path \in fs

\* The while loop of resolveUniquePath, entered with the next candidate and
\* index; probes is the list of paths probed so far.
RECURSIVE resolveLoop(_, _, _, _, _)
resolveLoop(path, candidate, index, fs, probes) ==
  IF pathExists(candidate, fs)
  THEN IF index + 1 > RetryCeiling
       THEN [ok |-> FALSE, path |-> <<>>,
             error |-> "Error: Too many files with the same name.",
             probes |-> Append(probes, candidate)]
       ELSE resolveLoop(path, appendIndexToPath(path, index), index + 1, fs,
                        Append(probes, candidate))
  ELSE [ok |-> TRUE, path |-> candidate, error |-> Null,
        probes |-> Append(probes, candidate)]

\* resolveUniquePath that takes the path as it is once it has probed it.
resolveUniquePathProbesOnly(path, fs) ==
  [ok |-> TRUE, path |-> path, error |-> Null, probes |-> <<path>>]

resolveUniquePath(path, fs) == resolveLoop(path, path, 1, fs, <<>>)

\* buildOutputPath that looks at the output folder before the naming mode.
buildOutputPathFolderFirst(item, cfg, fs) ==
  LET outputExt  == IF cfg.convertToExtension = "source" THEN item.extension
                    ELSE <<cfg.convertToExtension>>
      stem       == getFileStem(item.fileName, item.extension)
      safePrefix == sanitizeNamePart(cfg.prefix)
      safeSuffix == sanitizeNamePart(cfg.suffix)
      named      == IF cfg.namingMode = "prefix" THEN safePrefix \o stem
                    ELSE IF cfg.namingMode = "suffix" THEN stem \o safeSuffix
                    ELSE stem
      baseName   == IF named = <<>> \/ Trim(named) = <<>> THEN stem ELSE named
      fileName   == IF outputExt # <<>> THEN baseName \o <<".">> \o outputExt
                    ELSE baseName
      outputDir  == IF cfg.outputFolderMode = "custom" THEN cfg.outputFolder
                    ELSE getDirname(item.path)
  IN  IF outputDir = <<>>
      THEN [ok |-> FALSE, path |-> <<>>,
            error |-> "Error: Output folder is not set.", probes |-> <<>>]
      ELSE IF cfg.namingMode = "replace"
           THEN [ok |-> TRUE, path |-> item.path, error |-> Null,
                 probes |-> <<>>]
           ELSE resolveUniquePath(joinPath(outputDir, fileName), fs)

\* buildOutputPath without its test of the replace mode.
buildOutputPathNamesReplace(item, cfg, fs) ==
  LET outputExt  == IF cfg.convertToExtension = "source" THEN item.extension
                    ELSE <<cfg.convertToExtension>>
      stem       == getFileStem(item.fileName, item.extension)
      safePrefix == sanitizeNamePart(cfg.prefix)
      safeSuffix == sanitizeNamePart(cfg.suffix)
      named      == IF cfg.namingMode = "prefix" THEN safePrefix \o stem
                    ELSE IF cfg.namingMode = "suffix" THEN stem \o safeSuffix
                    ELSE stem
      baseName   == IF named = <<>> \/ Trim(named) = <<>> THEN stem ELSE named
      fileName   == IF outputExt # <<>> THEN baseName \o <<".">> \o outputExt
                    ELSE baseName
      outputDir  == IF cfg.outputFolderMode = "custom" THEN cfg.outputFolder
                    ELSE getDirname(item.path)
  IN  IF outputDir = <<>>
      THEN [ok |-> FALSE, path |-> <<>>,
            error |-> "Error: Output folder is not set.", probes |-> <<>>]
      ELSE resolveUniquePath(joinPath(outputDir, fileName), fs)

\* The convertToExtension argument of compressVideo for item.
EncoderExtension(item, cfg) ==
  IF cfg.namingMode = "replace" THEN item.extension
  ELSE IF cfg.convertToExtension = "source" THEN item.extension
       ELSE <<cfg.convertToExtension>>

\* buildOutputPath(item) under the configuration cfg the handler closes over.
buildOutputPath(item, cfg, fs) ==
  IF cfg.namingMode = "replace"
  THEN [ok |-> TRUE, path |-> item.path, error |-> Null, probes |-> <<>>]
  ELSE
    LET outputExt  == IF cfg.convertToExtension = "source" THEN item.extension
                      ELSE <<cfg.convertToExtension>>
        stem       == getFileStem(item.fileName, item.extension)
        safePrefix == sanitizeNamePart(cfg.prefix)
        safeSuffix == sanitizeNamePart(cfg.suffix)
        named      == IF cfg.namingMode = "prefix" THEN safePrefix \o stem
                      ELSE IF cfg.namingMode = "suffix" THEN stem \o safeSuffix
                      ELSE stem
        baseName   == IF named = <<>> \/ Trim(named) = <<>> THEN stem ELSE named
        fileName   == IF outputExt # <<>> THEN baseName \o <<".">> \o outputExt
                      ELSE baseName
        outputDir  == IF cfg.outputFolderMode = "custom" THEN cfg.outputFolder
                      ELSE getDirname(item.path)
    IN  IF outputDir = <<>>
        THEN [ok |-> FALSE, path |-> <<>>,
              error |-> "Error: Output folder is not set.", probes |-> <<>>]
        ELSE resolveUniquePath(joinPath(outputDir, fileName), fs)

------------------------------------------------------------------------------
(* Bounds of the model and the inputs the environment draws from.           *)

\* Items ever created by createBatchItems (each gets a fresh id).
MaxIds == 3

\* The one non-zero delay the shutdown select offers in the model, seconds.
MaxDelay == 2

\* Interval timers ever created by handleScheduleShutdown.
MaxTimers == 1

\* Interval timers ever created where a run arms the shutdown again.
MaxRearmed == 2

\* Clicks on Cancel Shutdown observed in one behaviour.
MaxCancels == 2

\* resolveVideoFiles calls in flight at once.
MaxResolving == 1

\* resolveVideoFiles calls in flight at once where add requests overlap.
MaxOverlapping == 2

\* Start clicks turned down between two accepted ones.
MaxRejected == 2

\* The largest elapsed time a progress event carries, milliseconds.
MaxElapsed == 5

\* Absent values: an id, a duration, secondsRemaining, a timer id.
NoId == 0

NoDuration == 0

NullSeconds == -1

NoTimer == 0

\* A nullable object: <<>> is null, <<x>> is the object x.
NoOutput == <<>>

\* A nullable folder path; null and '' are both falsy in buildOutputPath.
NoFolder == <<>>

\* FileMetadata records that resolveVideoFiles can return.
FileA == [path |-> <<"/", "d", "/", "a", ".", "mp4">>,
          fileName |-> <<"a", ".", "mp4">>, extension |-> <<"mp4">>]

FileB == [path |-> <<"/", "d", "/", "b", ".", "mkv">>,
          fileName |-> <<"b", ".", "mkv">>, extension |-> <<"mkv">>]

\* A file in the root directory: getDirname gives '' for it.
FileC == [path |-> <<"/", "c", ".", "mp4">>,
          fileName |-> <<"c", ".", "mp4">>, extension |-> <<"mp4">>]

FileD == [path |-> <<"/", "d", "/", "e", ".", "mp4">>,
          fileName |-> <<"e", ".", "mp4">>, extension |-> <<"mp4">>]

\* result.files of one resolveVideoFiles call.
ResolveResults == {<<>>, <<FileA>>, <<FileC, FileA>>, <<FileA, FileB, FileD>>}

\* The folder the output-folder dialog returns.
PickedFolder == <<"/", "o">>

\* message.includes('CANCELLED')
IncludesCancelled(message) == message \in {"CANCELLED"}

TerminalStatuses == {"success", "failed", "cancelled", "skipped"}

------------------------------------------------------------------------------
(* State.                                                                   *)

VARIABLES
  \* videoProxy.state.batch
  items, isCompressing, isCompleted, cancelRequested, currentItemId,
  completedCount, failedCount, skippedCount,
  \* videoProxy.state.isCompressing
  stateIsCompressing,
  \* videoProxy.state.batch.config merged with the fields of
  \* videoProxy.state.config that the batch view reads
  config,
  \* videoProxy.state.batch.shutdownTimerState, the interval timers alive in
  \* the window, the number ever created, whether the platform holds a
  \* scheduled shutdown, the scheduleSystemShutdown calls in flight (their
  \* delay and whether the BatchConfig that made them is still mounted),
  \* BatchConfig's showCountdownModal and the modal's cancel call, the
  \* cancel calls in flight of modals unmounted meanwhile, and how many
  \* cancel calls were made and how many of them failed
  shutdownTimerState, timers, timersCreated, platformArmed, scheduling,
  showCountdownModal, modalCancelling, orphanCancels, platformLog,
  \* the activation of handleStartBatch: where it is suspended (pc), the loop
  \* index (1-based), its copy of the list, the resolved output path and the
  \* encoder's temporary file
  run,
  \* resolveVideoFiles calls in flight (those of Root's
  \* handleBatchPathsSelected, those of BatchConfig's handleAddPaths),
  \* BatchConfig's isResolving, and the next id createBatchId hands out
  resolving, nextId,
  \* what happened in the current (or last) run, for the properties
  hist,
  \* QualityPreviewAction in batch mode: the mounted instance (its React state,
  \* its refs, the state its last render closed over, where its
  \* handleGeneratePreview is suspended), the handler of an unmounted instance
  \* that is still running, and what the generator and deleteFile were asked
  pv, orphan, pvHist,
  \* videoProxy.state.mode
  mode,
  \* one call of buildOutputPath on its own: the item and configuration, the
  \* filesystem during the call, the result
  pathIn, pathFs, pathOut,
  \* a resolveUniquePath call followed probe by probe: where it is (pc),
  \* its argument path and its locals candidate and index
  pathLoop,
  \* one call of buildPreviewCacheKey on its own, with the render calls a
  \* generation issues from the same state: the state, the results
  keyIn, keyOut,
  \* one call of mergeBatchItems on its own: the arguments, the result
  mergeIn, mergeOut,
  \* the compressVideo calls in flight (the videoId of each), the Start
  \* clicks the handler turned down since the last accepted one, and the last
  \* write of the VideoCompressionProgress listener in the current run
  encoding, startLog, progLog

batchVars == <<items, isCompressing, isCompleted, cancelRequested,
               currentItemId, completedCount, failedCount, skippedCount,
               stateIsCompressing>>

shutdownVars == <<shutdownTimerState, timers, timersCreated, platformArmed,
                  scheduling, showCountdownModal, modalCancelling,
                  orphanCancels, platformLog>>

\* No platform call made yet.
FreshPlatformLog == [cancelCalls |-> 0, cancelFailures |-> 0]

pvVars == <<pv, orphan, pvHist>>

pathVars == <<pathIn, pathFs, pathOut, pathLoop>>

callVars == <<keyIn, keyOut, mergeIn, mergeOut>>

traceVars == <<encoding, startLog, progLog>>

vars == <<batchVars, config, shutdownVars, run, resolving, nextId, hist,
          pvVars, pathVars, callVars, mode, traceVars>>

\* No resolveUniquePath call is being followed.
IdleLoop == [pc |-> "idle", path |-> <<>>, candidate |-> <<>>, index |-> 0]

IdleRun == [pc |-> "idle", index |-> 0, items |-> <<>>, outputPath |-> <<>>,
            convertToExtension |-> <<>>, resultPath |-> <<>>]

FreshHist == [n |-> 0, delaySeconds |-> 0, cancelAt |-> 0, cancelSeen |-> FALSE,
              markerSeen |-> FALSE, encStarted |-> {}, failedAt |-> {},
              shutdownCalls |-> <<>>, scheduleFailures |-> 0]

\* No Start click turned down yet.
FreshStartLog == [rejected |-> 0, reason |-> "none"]

\* The listener has written nothing yet.
NoProgress == [id |-> NoId, elapsed |-> 0, duration |-> NoDuration,
               written |-> 0]

\* batchConfigInitialState and videoConfigInitialState
ConfigInit == [namingMode |-> "suffix", prefix |-> <<>>,
               suffix |-> <<"_", "compressed">>, outputFolderMode |-> "source",
               outputFolder |-> NoFolder, delaySeconds |-> 0,
               convertToExtension |-> "mp4", presetName |-> "ironclad",
               shouldDisableCompression |-> FALSE, shouldMuteVideo |-> FALSE,
               shouldEnableQuality |-> FALSE, quality |-> 50,
               shouldEnableCustomDimensions |-> FALSE,
               shouldEnableCustomFPS |-> FALSE]

------------------------------------------------------------------------------
(* QualityPreviewAction as BatchConfig renders it (mode = 'batch'): its      *)
(* state, refs and pure parts.                                               *)

PREVIEW_SECONDS == 20

BATCH_PREVIEW_LIMIT == 3

\* Render calls and accepted clicks on Preview Quality observed in one
\* behaviour.
MaxRenders == 2

MaxRequests == 2

\* previewCacheKeyRef.current = null
NoKey == <<>>

\* The component is rendered when the batch view is (the list is not
\* empty), the view does not show its spinner and no run is on.
PvMounted ==
  mode = "batch" /\ items # <<>> /\ ~isCompressing /\ ~resolving.isResolving

\* The component right after mounting.  pc, idx, sample, key, generated and
\* failed are the locals of the running handleGeneratePreview; rendered is
\* the React state the last render closed over.
PvFresh == [isGenerating |-> FALSE, previewItems |-> <<>>, tempPaths |-> <<>>,
            cacheKey |-> NoKey, pc |-> "idle", idx |-> 0, sample |-> <<>>,
            key |-> NoKey, generated |-> <<>>, failed |-> 0,
            toast |-> "none",
            rendered |-> [isGenerating |-> FALSE, previewItems |-> <<>>]]

\* The record of the last request the mounted instance accepted and missed
\* the cache on: whether it has produced artifacts, its key, the quality
\* setting it read, the artifacts it stored and the temp files they own,
\* whether it replaced an entry rendered with another quality.
NoLast == [produced |-> FALSE, key |-> NoKey, quality |-> 0, enabled |-> FALSE,
           artifacts |-> <<>>, owned |-> {}, qualityChanged |-> FALSE]

\* The quality a preview is rendered with: the slider's value when quality
\* is enabled, none otherwise.
EffectiveQuality(enabled, quality) == IF enabled THEN <<quality>> ELSE <<>>

\* The record of the generation started last: its number, whether the
\* instance it runs on is still mounted, the ids it sampled, the files the
\* entry before it owned, the deletes it sent and those of them that failed,
\* the outcome of each render in order, and once its handler has returned
\* the artifacts and the key it stored and the toast it showed.
NoGeneration == [n |-> 0, live |-> FALSE, sample |-> <<>>, prevOwned |-> {},
                 evicted |-> {}, failedDeletes |-> {}, outcomes |-> <<>>,
                 done |-> FALSE, stored |-> <<>>, keyStored |-> NoKey,
                 report |-> "none"]

\* born: the files the generator returned, each with the number of the
\* generation it was rendered for.
FreshPvHist == [returned |-> {}, deleted |-> {}, renderCalls |-> 0,
                requests |-> 0, last |-> NoLast, gen |-> NoGeneration,
                born |-> {}]

\* state.batch.items.slice(0, BATCH_PREVIEW_LIMIT)
SampleItems(its) == SubSeq(its, 1, IF Len(its) < BATCH_PREVIEW_LIMIT
                                   THEN Len(its) ELSE BATCH_PREVIEW_LIMIT)

\* The key without the quality setting.
buildPreviewCacheKeyNoQuality(its, cfg) ==
  LET sampleItems == SampleItems(its)
      sampleDescriptor ==
        [k \in 1..Len(sampleItems) |->
           [id |-> sampleItems[k].id, path |-> sampleItems[k].path,
            extension |-> sampleItems[k].extension]]
  IN  [mode |-> "batch",
       namingMode |-> cfg.namingMode,
       convertToExtension |-> cfg.convertToExtension,
       sampleDescriptor |-> sampleDescriptor,
       presetName |-> IF ~cfg.shouldDisableCompression
                      THEN <<cfg.presetName>> ELSE <<>>,
       shouldMuteVideo |-> cfg.shouldMuteVideo,
       quality |-> <<>>,
       dimensions |-> <<>>,
       fps |-> <<>>,
       previewSeconds |-> PREVIEW_SECONDS]

\* The key without the custom dimensions.
buildPreviewCacheKeyNoDimensions(its, cfg) ==
  [buildPreviewCacheKeyNoQuality(its, cfg) EXCEPT
     !.quality = IF cfg.shouldEnableQuality THEN <<cfg.quality>> ELSE <<>>,
     !.fps = IF cfg.shouldEnableCustomFPS /\ cfg.customFPS # <<>>
             THEN cfg.customFPS ELSE <<>>]

\* buildPreviewCacheKey(state) for mode 'batch'; the JSON text is kept as the
\* record it serialises, null as the empty tuple and a value v that is there
\* as <<v>>.  customDimensions and customFPS are read only where their
\* switches are on.
buildPreviewCacheKey(its, cfg) ==
  LET sampleItems == SampleItems(its)
      sampleDescriptor ==
        [k \in 1..Len(sampleItems) |->
           [id |-> sampleItems[k].id, path |-> sampleItems[k].path,
            extension |-> sampleItems[k].extension]]
  IN  [mode |-> "batch",
       namingMode |-> cfg.namingMode,
       convertToExtension |-> cfg.convertToExtension,
       sampleDescriptor |-> sampleDescriptor,
       presetName |-> IF ~cfg.shouldDisableCompression
                      THEN <<cfg.presetName>> ELSE <<>>,
       shouldMuteVideo |-> cfg.shouldMuteVideo,
       quality |-> IF cfg.shouldEnableQuality THEN <<cfg.quality>> ELSE <<>>,
       dimensions |-> IF cfg.shouldEnableCustomDimensions
                      THEN cfg.customDimensions ELSE <<>>,
       fps |-> IF cfg.shouldEnableCustomFPS /\ cfg.customFPS # <<>>
               THEN cfg.customFPS ELSE <<>>,
       previewSeconds |-> PREVIEW_SECONDS]

\* buildPreviewCacheKey(state) for mode 'single'; video is the selected
\* video (pathRaw and extension, each null as the empty tuple).
buildSinglePreviewCacheKey(video, cfg) ==
  LET convertToExtension ==
        IF cfg.convertToExtension = "source"
        THEN (IF video.extension = <<>> THEN <<"mp4">> ELSE video.extension[1])
        ELSE <<cfg.convertToExtension>>
      transformsHistory ==
        IF cfg.shouldTransformVideo
        THEN (IF cfg.transformsHistory = <<>> THEN <<>>
              ELSE cfg.transformsHistory[1])
        ELSE <<>>
  IN  [mode |-> "single",
       videoPath |-> IF video.pathRaw = <<>> THEN <<>> ELSE video.pathRaw[1],
       convertToExtension |-> convertToExtension,
       transformsHistory |-> transformsHistory,
       presetName |-> IF ~cfg.shouldDisableCompression
                      THEN <<cfg.presetName>> ELSE <<>>,
       shouldMuteVideo |-> cfg.shouldMuteVideo,
       quality |-> IF cfg.shouldEnableQuality THEN <<cfg.quality>> ELSE <<>>,
       dimensions |-> IF cfg.shouldEnableCustomDimensions
                      THEN cfg.customDimensions ELSE <<>>,
       fps |-> IF cfg.shouldEnableCustomFPS /\ cfg.customFPS # <<>>
               THEN cfg.customFPS ELSE <<>>,
       previewSeconds |-> PREVIEW_SECONDS]

\* The arguments of the generateQualityPreview calls of one generation in
\* mode 'batch', in the order of the calls; an argument that is left out as
\* the empty tuple, one that is there as <<v>>.
batchRenderCalls(its, cfg) ==
  LET sampleItems == SampleItems(its)
  IN  [index \in 1..Len(sampleItems) |->
         LET item == sampleItems[index]
             convertToExtension ==
               IF cfg.namingMode = "replace" THEN item.extension
               ELSE IF cfg.convertToExtension = "source" THEN item.extension
                    ELSE <<cfg.convertToExtension>>
         IN  [videoPath |-> item.path,
              convertToExtension |-> convertToExtension,
              presetName |-> IF ~cfg.shouldDisableCompression
                             THEN <<cfg.presetName>> ELSE <<>>,
              shouldMuteVideo |-> cfg.shouldMuteVideo,
              previewSeconds |-> PREVIEW_SECONDS,
              quality |-> IF cfg.shouldEnableQuality
                          THEN <<cfg.quality>> ELSE <<>>,
              dimensions |-> IF /\ cfg.shouldEnableCustomDimensions
                                /\ cfg.customDimensions # <<>>
                             THEN cfg.customDimensions ELSE <<>>,
              fps |-> IF cfg.shouldEnableCustomFPS /\ cfg.customFPS # <<>>
                      THEN <<NumberToString(cfg.customFPS[1])>> ELSE <<>>,
              transformsHistory |-> <<>>]]

\* The same in mode 'single': no call without a video path, one otherwise.
singleRenderCalls(video, cfg) ==
  LET videoPath == IF video.pathRaw = <<>> THEN <<>> ELSE video.pathRaw[1]
      convertToExtension ==
        IF cfg.convertToExtension = "source"
        THEN (IF video.extension = <<>> THEN <<"mp4">> ELSE video.extension[1])
        ELSE <<cfg.convertToExtension>>
      transformsHistory ==
        IF cfg.shouldTransformVideo
        THEN (IF cfg.transformsHistory = <<>> THEN <<>>
              ELSE cfg.transformsHistory[1])
        ELSE <<>>
  IN  IF videoPath = <<>> THEN <<>>
      ELSE <<[videoPath |-> videoPath,
              convertToExtension |-> convertToExtension,
              presetName |-> IF ~cfg.shouldDisableCompression
                             THEN <<cfg.presetName>> ELSE <<>>,
              shouldMuteVideo |-> cfg.shouldMuteVideo,
              previewSeconds |-> PREVIEW_SECONDS,
              quality |-> IF cfg.shouldEnableQuality
                          THEN <<cfg.quality>> ELSE <<>>,
              dimensions |-> IF /\ cfg.shouldEnableCustomDimensions
                                /\ cfg.customDimensions # <<>>
                             THEN cfg.customDimensions ELSE <<>>,
              fps |-> IF cfg.shouldEnableCustomFPS /\ cfg.customFPS # <<>>
                      THEN <<NumberToString(cfg.customFPS[1])>> ELSE <<>>,
              transformsHistory |-> IF Len(transformsHistory) > 0
                                    THEN <<transformsHistory>> ELSE <<>>]>>

\* previewItems.length > 0 && previewCacheKeyRef.current === currentCacheKey
CacheHit(inst, currentCacheKey) ==
  /\ Len(inst.rendered.previewItems) > 0
  /\ inst.cacheKey = <<currentCacheKey>>

\* core.convertFileSrc(path)
convertFileSrc(path) == <<"asset://localhost/">> \o path

\* The two files of the n-th preview the generator hands back.
PreviewPaths(n) == <<<<"/", "t", "/", "s">> \o NumberToString(n),
                     <<"/", "t", "/", "c">> \o NumberToString(n)>>

\* The handler after the await of cleanupPreviewFiles, up to the first
\* generateQualityPreview call (the sample is never empty while mounted).
InstAfterCleanup(inst) ==
  [inst EXCEPT !.previewItems = <<>>, !.cacheKey = NoKey,
               !.pc = "render", !.idx = 1]

\* The handler's locals once it has returned.
InstReturned(inst) ==
  [inst EXCEPT !.isGenerating = FALSE, !.pc = "idle", !.idx = 0,
               !.sample = <<>>, !.key = NoKey, !.generated = <<>>,
               !.failed = 0]

\* InstFinish without the store of the key.
InstFinishForgetsKey(inst) ==
  IF Len(inst.generated) = 0
  THEN InstReturned([inst EXCEPT !.toast = "nothing generated"])
  ELSE InstReturned([inst EXCEPT !.previewItems = inst.generated,
                                 !.toast = IF inst.failed > 0 THEN "some failed"
                                           ELSE "none"])

\* The handler after the loop: nothing generated is a toast; otherwise a
\* toast when a render failed, and the items and the key are stored;
\* finally.
InstFinish(inst) ==
  IF Len(inst.generated) = 0
  THEN InstReturned([inst EXCEPT !.toast = "nothing generated"])
  ELSE InstReturned([inst EXCEPT !.previewItems = inst.generated,
                                 !.cacheKey = <<inst.key>>,
                                 !.toast = IF inst.failed > 0 THEN "some failed"
                                           ELSE "none"])

\* The end of one loop pass: the next generateQualityPreview call or the end.
InstAdvance(inst) ==
  IF inst.idx < Len(inst.sample)
  THEN [inst EXCEPT !.idx = inst.idx + 1]
  ELSE InstFinish(inst)

\* generateQualityPreview resolved with the files preview.
InstRenderResolved(inst, preview) ==
  InstAdvance([inst EXCEPT
    !.generated = Append(@, [id |-> inst.sample[inst.idx].id,
                             label |-> inst.sample[inst.idx].fileName,
                             sourceSrc |-> convertFileSrc(preview[1]),
                             compressedSrc |-> convertFileSrc(preview[2])]),
    !.tempPaths = @ \o preview])

\* A rejected render ending the loop.
InstRenderRejectedEndsLoop(inst) ==
  InstFinish([inst EXCEPT !.failed = inst.failed + 1])

\* generateQualityPreview rejected.
InstRenderRejected(inst) ==
  InstAdvance([inst EXCEPT !.failed = inst.failed + 1])

\* A failed delete reaching the handler's catch block.
InstCleanupSettledThrows(inst, failed) ==
  IF failed # {}
  THEN InstReturned([inst EXCEPT !.toast = "could not generate"])
  ELSE InstAfterCleanup(inst)

\* The await of cleanupPreviewFiles is over, the deletes of failed having
\* been rejected: each rejection is caught where it happens.
InstCleanupSettled(inst, failed) == InstAfterCleanup(inst)

\* handleGeneratePreview keeping the paths it sends the deletes for.
InstStartedKeepsPaths(inst, its, currentCacheKey) ==
  [inst EXCEPT !.isGenerating = TRUE,
               !.sample = SampleItems(its),
               !.key = currentCacheKey,
               !.generated = <<>>, !.failed = 0, !.toast = "none",
               !.rendered = [isGenerating |-> TRUE,
                             previewItems |-> inst.previewItems]]

\* handleGeneratePreview whose setIsGenerating(true) is not rendered before
\* the next click.
InstStartedRendersLater(inst, its, currentCacheKey) ==
  [inst EXCEPT !.isGenerating = TRUE, !.tempPaths = <<>>,
               !.sample = SampleItems(its),
               !.key = currentCacheKey,
               !.generated = <<>>, !.failed = 0, !.toast = "none"]

\* The handler past its guard and its cache test, up to the deletes of
\* cleanupPreviewFiles: the ref is emptied.
InstStarted(inst, its, currentCacheKey) ==
  [inst EXCEPT !.isGenerating = TRUE, !.tempPaths = <<>>,
               !.sample = SampleItems(its),
               !.key = currentCacheKey,
               !.generated = <<>>, !.failed = 0, !.toast = "none",
               !.rendered = [isGenerating |-> TRUE,
                             previewItems |-> inst.previewItems]]

\* The cleanup of the unmount effect: the key is dropped, a delete goes out
\* for each path in previewTempPathsRef, the ref is emptied.  A handler that
\* is suspended goes on running on the unmounted instance.
PvUnmount ==
  /\ pv' = PvFresh
  /\ orphan' = IF pv.pc # "idle"
               THEN [pv EXCEPT !.cacheKey = NoKey, !.tempPaths = <<>>]
               ELSE orphan
  /\ pvHist' = [pvHist EXCEPT !.deleted = @ \cup Range(pv.tempPaths),
                              !.last = NoLast,
                              !.gen = [NoGeneration EXCEPT !.n = pvHist.gen.n]]

\* What a change of the list or of batch.isCompressing does to the
\* component: it is unmounted when the view stops rendering it.
PvFollow ==
  IF PvMounted /\ ~(/\ mode' = "batch" /\ items' # <<>> /\ ~isCompressing'
                    /\ ~resolving'.isResolving)
  THEN PvUnmount
  ELSE UNCHANGED pvVars

\* batchInitialState
BatchInit ==
  /\ items = <<>>
  /\ isCompressing = FALSE
  /\ isCompleted = FALSE
  /\ cancelRequested = FALSE
  /\ currentItemId = NoId
  /\ completedCount = 0
  /\ failedCount = 0
  /\ skippedCount = 0
  /\ stateIsCompressing = FALSE
  /\ shutdownTimerState = [isPending |-> FALSE, secondsRemaining |-> NullSeconds,
                           timerId |-> NoTimer]
  /\ timers = {}
  /\ timersCreated = 0
  /\ platformArmed = FALSE
  /\ scheduling = <<>>
  /\ showCountdownModal = FALSE
  /\ modalCancelling = FALSE
  /\ orphanCancels = 0
  /\ platformLog = FreshPlatformLog
  /\ run = IdleRun
  /\ resolving = [root |-> 0, batch |-> 0, isResolving |-> FALSE]
  /\ nextId = 1
  /\ hist = FreshHist
  /\ pv = PvFresh
  /\ orphan = PvFresh
  /\ pvHist = FreshPvHist
  /\ encoding = <<>>
  /\ startLog = FreshStartLog
  /\ progLog = NoProgress

\* No call of buildPreviewCacheKey or mergeBatchItems is looked at on its
\* own.
CallsIdle ==
  /\ keyIn = <<>>
  /\ keyOut = <<>>
  /\ mergeIn = <<>>
  /\ mergeOut = <<>>

\* No call of buildOutputPath is looked at on its own.
PathIdle ==
  /\ pathIn = <<>>
  /\ pathFs = {}
  /\ pathOut = <<>>
  /\ pathLoop = IdleLoop

\* The batch tab chosen, nothing added yet.
Init ==
  /\ BatchInit
  /\ mode = "batch"
  /\ CallsIdle
  /\ config = ConfigInit
  /\ PathIdle

------------------------------------------------------------------------------
(* Adding, removing and clearing items.                                     *)

\* createBatchItems(files), the fresh ids starting at firstId.
createBatchItems(files, firstId) ==
  [k \in 1..Len(files) |->
     [id |-> firstId + k - 1, path |-> files[k].path,
      fileName |-> files[k].fileName,
      extension |-> ToLowerCase(files[k].extension),
      status |-> "pending", progress |-> 0,
      durationMilliseconds |-> NoDuration, error |-> Null,
      output |-> NoOutput]]

\* A merge that compares the incoming paths with those of existing only.
mergeBatchItemsStaleSet(existing, incoming) ==
  LET existingPaths == {existing[k].path : k \in 1..Len(existing)}
      Fresh(item) == item.path \notin existingPaths
  IN  existing \o SelectSeq(incoming, Fresh)

RECURSIVE mergeBatchItems(_, _)
mergeBatchItems(existing, incoming) ==
  IF incoming = <<>> THEN existing
  ELSE LET item == Head(incoming)
           existingPaths == {existing[k].path : k \in 1..Len(existing)}
       IN  IF item.path \notin existingPaths
           THEN mergeBatchItems(Append(existing, item), Tail(incoming))
           ELSE mergeBatchItems(existing, Tail(incoming))

\* Root's handleBatchPathsSelected (the view of the empty list) up to its
\* await of resolveVideoFiles, with fewer than limit calls in flight. The
\* view stays as it is while the call is in flight, so Add Files and Add
\* Folders can be pressed again.
BatchPathsSelectedCallWithin(limit) ==
  /\ mode = "batch"
  /\ items = <<>>
  /\ ~(isCompressing \/ stateIsCompressing)
  /\ resolving.root + resolving.batch < limit
  /\ resolving' = [resolving EXCEPT !.root = @ + 1]
  /\ UNCHANGED <<batchVars, config, shutdownVars, run, nextId, hist,
                 pvVars, pathVars, callVars, mode, traceVars>>

BatchPathsSelectedCall == BatchPathsSelectedCallWithin(MaxResolving)

\* handleBatchPathsSelected from the resolution of resolveVideoFiles on.
BatchPathsSelectedReturn(results) ==
  /\ resolving.root > 0
  /\ \E files \in results :
       /\ nextId + Len(files) - 1 <= MaxIds
       /\ items' = IF Len(files) = 0 THEN items
                   ELSE mergeBatchItems(items, createBatchItems(files, nextId))
       /\ nextId' = nextId + Len(files)
       /\ mode' = IF Len(files) = 0 THEN mode ELSE "batch"
  /\ resolving' = [resolving EXCEPT !.root = @ - 1]
  /\ UNCHANGED <<isCompressing, isCompleted, cancelRequested, currentItemId,
                 completedCount, failedCount, skippedCount, stateIsCompressing,
                 config, shutdownVars, run, hist,
                 pvVars, pathVars, callVars, traceVars>>

\* resolveVideoFiles rejected: a toast, nothing else.
BatchPathsSelectedFail ==
  /\ resolving.root > 0
  /\ resolving' = [resolving EXCEPT !.root = @ - 1]
  /\ UNCHANGED <<batchVars, config, shutdownVars, run, nextId, hist,
                 pvVars, pathVars, callVars, mode, traceVars>>

\* BatchConfig's handleAddPaths up to its await of resolveVideoFiles.
AddPathsCall ==
  /\ items # <<>>
  /\ ~isCompressing
  /\ resolving.root + resolving.batch < MaxResolving
  /\ resolving' = [resolving EXCEPT !.batch = @ + 1, !.isResolving = TRUE]
  /\ UNCHANGED <<batchVars, config, shutdownVars, run, nextId, hist, pathVars, callVars, mode,
                 traceVars>>
  /\ PvFollow

\* handleAddPaths from the resolution of resolveVideoFiles on.
AddPathsReturn(results) ==
  /\ resolving.batch > 0
  /\ \E files \in results :
       /\ nextId + Len(files) - 1 <= MaxIds
       /\ items' = mergeBatchItems(items, createBatchItems(files, nextId))
       /\ nextId' = nextId + Len(files)
  /\ resolving' = [resolving EXCEPT !.batch = @ - 1, !.isResolving = FALSE]
  /\ UNCHANGED <<isCompressing, isCompleted, cancelRequested, currentItemId,
                 completedCount, failedCount, skippedCount, stateIsCompressing,
                 config, shutdownVars, run, hist,
                 pvVars, pathVars, callVars, mode, traceVars>>

\* resolveVideoFiles rejected: a toast; the spinner goes.
AddPathsFail ==
  /\ resolving.batch > 0
  /\ resolving' = [resolving EXCEPT !.batch = @ - 1, !.isResolving = FALSE]
  /\ UNCHANGED <<batchVars, config, shutdownVars, run, nextId, hist,
                 pvVars, pathVars, callVars, mode, traceVars>>

\* The controls of the batch view are rendered: the view is, without its
\* spinner.
ControlsShown == mode = "batch" /\ items # <<>> /\ ~resolving.isResolving

\* Root's switchMode on the view of the empty list: resetProxy puts the
\* initial state in place of the proxy's state; intervals, platform calls
\* and handlers in flight are not touched.
switchMode ==
  /\ ~(mode = "batch" /\ items # <<>>)
  /\ ~(stateIsCompressing \/ isCompressing)
  /\ \E nextMode \in {"single", "batch"} :
       /\ nextMode # mode
       /\ mode' = nextMode
  /\ items' = <<>>
  /\ isCompressing' = FALSE
  /\ isCompleted' = FALSE
  /\ cancelRequested' = FALSE
  /\ currentItemId' = NoId
  /\ completedCount' = 0
  /\ failedCount' = 0
  /\ skippedCount' = 0
  /\ stateIsCompressing' = FALSE
  /\ config' = ConfigInit
  /\ shutdownTimerState' = [isPending |-> FALSE,
                            secondsRemaining |-> NullSeconds,
                            timerId |-> NoTimer]
  /\ UNCHANGED <<timers, timersCreated, platformArmed, scheduling,
                 showCountdownModal, modalCancelling, orphanCancels,
                 platformLog, run, resolving, nextId, hist, pvVars, pathVars, callVars,
                 traceVars>>

\* The cleanup of BatchConfig's unmount effect, and what the unmount does
\* to the component's own state: the interval whose id is stored is
\* stopped and the id dropped; showCountdownModal and the modal go with the
\* component, while the platform calls their handlers wait for go on.
ConfigUnmount ==
  /\ timers' = timers \ {shutdownTimerState.timerId}
  /\ shutdownTimerState' = [shutdownTimerState EXCEPT !.timerId = NoTimer]
  /\ scheduling' = [k \in 1..Len(scheduling) |->
                     [scheduling[k] EXCEPT !.mounted = FALSE]]
  /\ showCountdownModal' = FALSE
  /\ modalCancelling' = FALSE
  /\ orphanCancels' = orphanCancels + (IF modalCancelling THEN 1 ELSE 0)
  /\ UNCHANGED <<timersCreated, platformArmed, platformLog>>

\* What a change of the list does to BatchConfig: Root stops rendering it
\* when the list becomes empty.
ConfigFollow ==
  IF items # <<>> /\ items' = <<>>
  THEN ConfigUnmount
  ELSE UNCHANGED shutdownVars

handleClearList ==
  /\ ControlsShown
  /\ ~isCompressing
  /\ items' = <<>>
  /\ completedCount' = 0
  /\ failedCount' = 0
  /\ skippedCount' = 0
  /\ currentItemId' = NoId
  /\ isCompleted' = FALSE
  /\ UNCHANGED <<isCompressing, cancelRequested, stateIsCompressing, config,
                 run, resolving, nextId, hist, pathVars, callVars, mode, traceVars>>
  /\ ConfigFollow
  /\ PvFollow

handleRemoveItem ==
  /\ ControlsShown
  /\ ~isCompressing
  /\ \E k \in 1..Len(items) :
       items' = SelectSeq(items, LAMBDA item : item.id # items[k].id)
  /\ UNCHANGED <<isCompressing, isCompleted, cancelRequested, currentItemId,
                 completedCount, failedCount, skippedCount, stateIsCompressing,
                 config, run, resolving, nextId, hist, pathVars, callVars, mode, traceVars>>
  /\ ConfigFollow
  /\ PvFollow

------------------------------------------------------------------------------
(* Configuration controls of BatchConfig (all disabled while a run is on).  *)

\* The effect that follows a change of naming mode: replace forces the source
\* extension and the source folder.
ReplaceEffect(cfg) ==
  IF cfg.namingMode = "replace"
  THEN [cfg EXCEPT !.convertToExtension = "source",
                   !.outputFolderMode = "source"]
  ELSE cfg

SetNamingMode(modes) ==
  /\ ControlsShown
  /\ ~isCompressing
  /\ \E value \in modes :
       config' = ReplaceEffect([config EXCEPT !.namingMode = value])
  /\ UNCHANGED <<batchVars, shutdownVars, run, resolving, nextId, hist,
                 pvVars, pathVars, callVars, mode, traceVars>>

\* The Extension select, disabled in the replace mode.
SetConvertToExtension ==
  /\ ControlsShown
  /\ ~isCompressing
  /\ config.namingMode # "replace"
  /\ \E value \in {"source", "mp4", "mkv"} :
       config' = ReplaceEffect([config EXCEPT !.convertToExtension = value])
  /\ UNCHANGED <<batchVars, shutdownVars, run, resolving, nextId, hist,
                 pvVars, pathVars, callVars, mode, traceVars>>

SetOutputFolderMode ==
  /\ ControlsShown
  /\ ~isCompressing
  /\ config.namingMode # "replace"
  /\ \E value \in {"source", "custom"} :
       config' = [config EXCEPT !.outputFolderMode = value]
  /\ UNCHANGED <<batchVars, shutdownVars, run, resolving, nextId, hist,
                 pvVars, pathVars, callVars, mode, traceVars>>

handleChooseOutputFolder ==
  /\ ControlsShown
  /\ ~isCompressing
  /\ config.outputFolderMode = "custom"
  /\ config' = [config EXCEPT !.outputFolder = PickedFolder]
  /\ UNCHANGED <<batchVars, shutdownVars, run, resolving, nextId, hist,
                 pvVars, pathVars, callVars, mode, traceVars>>

\* The select of ShutdownTimer.
SetShutdownDelay ==
  /\ ControlsShown
  /\ ~isCompressing
  /\ \E nextValue \in {0, MaxDelay} :
       config' = [config EXCEPT !.delaySeconds = nextValue]
  /\ UNCHANGED <<batchVars, shutdownVars, run, resolving, nextId, hist,
                 pvVars, pathVars, callVars, mode, traceVars>>

------------------------------------------------------------------------------
(* handleStartBatch.  Each action runs the handler from one suspension      *)
(* point to the next; the code between two awaits is one step.             *)

\* The compressVideo calls in flight without the first one for videoId.
RECURSIVE WithoutCall(_, _)
WithoutCall(calls, videoId) ==
  IF calls = <<>> THEN <<>>
  ELSE IF Head(calls) = videoId THEN Tail(calls)
       ELSE <<Head(calls)>> \o WithoutCall(Tail(calls), videoId)

\* The calls in flight once the call the handler is suspended on has settled.
Settled ==
  IF run.pc = "encode" THEN WithoutCall(encoding, run.items[run.index].id)
  ELSE encoding

\* The map of the cancel paths turning every unfinished or failed item.
MarkAllCancelled(its) ==
  [k \in 1..Len(its) |->
     IF its[k].status # "success" THEN [its[k] EXCEPT !.status = "cancelled"]
     ELSE its[k]]

MarkPendingCancelled(its) ==
  [k \in 1..Len(its) |->
     IF its[k].status = "pending" THEN [its[k] EXCEPT !.status = "cancelled"]
     ELSE its[k]]

\* The reset without the output descriptor.
ResetItemsKeepsOutput(its) ==
  [k \in 1..Len(its) |->
     [its[k] EXCEPT !.status = "pending", !.progress = 0, !.error = Null]]

\* The map of handleStartBatch over the list before its loop.
ResetItems(its) ==
  [k \in 1..Len(its) |->
     [its[k] EXCEPT !.status = "pending", !.progress = 0, !.error = Null,
                    !.output = NoOutput]]

\* Finally handing off to the shutdown scheduler before it clears the flags.
FinallyArmsFirst(its, cc, fc, h) ==
  /\ items' = IF cancelRequested THEN MarkPendingCancelled(its) ELSE its
  /\ currentItemId' = NoId
  /\ isCompressing' = FALSE
  /\ stateIsCompressing' = FALSE
  /\ isCompleted' = TRUE
  /\ cancelRequested' = FALSE
  /\ completedCount' = cc
  /\ failedCount' = fc
  /\ run' = IdleRun
  /\ LET shutdownConfig == config
         arm == shutdownConfig.delaySeconds > 0
     IN  /\ scheduling' = IF arm
                          THEN Append(scheduling,
                                      [delaySeconds |-> shutdownConfig.delaySeconds,
                                       mounted |-> TRUE])
                          ELSE scheduling
         /\ hist' = IF arm
                    THEN [h EXCEPT !.shutdownCalls =
                            Append(@, [delaySeconds |-> shutdownConfig.delaySeconds,
                                       isCompressing |-> isCompressing,
                                       isCompleted |-> isCompleted])]
                    ELSE h
  /\ encoding' = Settled
  /\ UNCHANGED <<skippedCount, config, shutdownTimerState, timers,
                 timersCreated, platformArmed, showCountdownModal,
                 modalCancelling, orphanCancels, platformLog, resolving, nextId,
                 pvVars, pathVars, callVars, mode, startLog, progLog>>

\* The finally block without its write of batch.isCompressing.
FinallyKeepsFlag(its, cc, fc, h) ==
  /\ items' = IF cancelRequested THEN MarkPendingCancelled(its) ELSE its
  /\ currentItemId' = NoId
  /\ isCompleted' = TRUE
  /\ cancelRequested' = FALSE
  /\ completedCount' = cc
  /\ failedCount' = fc
  /\ run' = IdleRun
  /\ hist' = h
  /\ encoding' = Settled
  /\ UNCHANGED <<isCompressing, stateIsCompressing, skippedCount, config,
                 shutdownVars, resolving, nextId, pvVars, pathVars, callVars, mode, startLog,
                 progLog>>

\* The finally block.  its, cc, fc: the list and the counters as the loop
\* left them; h: the run's record.  The shutdown condition reads
\* batch.cancelRequested after the block has reset it.
Finally(its, cc, fc, h) ==
  /\ items' = IF cancelRequested THEN MarkPendingCancelled(its) ELSE its
  /\ currentItemId' = NoId
  /\ isCompressing' = FALSE
  /\ stateIsCompressing' = FALSE
  /\ isCompleted' = TRUE
  /\ cancelRequested' = FALSE
  /\ completedCount' = cc
  /\ failedCount' = fc
  /\ run' = IdleRun
  /\ LET shutdownConfig == config
         arm == shutdownConfig.delaySeconds > 0 /\ ~cancelRequested'
     IN  /\ scheduling' = IF arm
                          THEN Append(scheduling,
                                      [delaySeconds |-> shutdownConfig.delaySeconds,
                                       mounted |-> TRUE])
                          ELSE scheduling
         /\ hist' = IF arm
                    THEN [h EXCEPT !.shutdownCalls =
                            Append(@, [delaySeconds |-> shutdownConfig.delaySeconds,
                                       isCompressing |-> isCompressing',
                                       isCompleted |-> isCompleted'])]
                    ELSE h
  /\ encoding' = Settled
  /\ UNCHANGED <<skippedCount, config, shutdownTimerState, timers,
                 timersCreated, platformArmed, showCountdownModal,
                 modalCancelling, orphanCancels, platformLog, resolving, nextId,
                 pvVars, pathVars, callVars, mode, startLog, progLog>>

\* The loop body up to the await of getVideoInfo, for the item at index i of
\* the handler's copy runItems.
StartItem(its, runItems, i, cc, fc, h) ==
  /\ items' = [its EXCEPT ![i] = [runItems[i] EXCEPT !.status = "compressing"]]
  /\ currentItemId' = runItems[i].id
  /\ run' = [pc |-> "info", index |-> i, items |-> runItems,
             outputPath |-> <<>>, convertToExtension |-> <<>>,
                    resultPath |-> <<>>]
  /\ completedCount' = cc
  /\ failedCount' = fc
  /\ hist' = h
  /\ encoding' = Settled
  /\ UNCHANGED <<isCompressing, isCompleted, cancelRequested, skippedCount,
                 stateIsCompressing, config, shutdownVars, resolving, nextId,
                 pvVars, pathVars, callVars, mode, startLog, progLog>>

\* AfterItem without the cancel check at the item boundary.
AfterItemNoCancelCheck(its, break, cc, fc, h) ==
  IF break \/ run.index + 1 > Len(run.items)
  THEN Finally(its, cc, fc, h)
  ELSE StartItem(its, run.items, run.index + 1, cc, fc, h)

\* The end of one loop pass: break, the loop condition, the cancel check at
\* the item boundary, the next item.
AfterItem(its, break, cc, fc, h) ==
  IF break \/ run.index + 1 > Len(run.items)
  THEN Finally(its, cc, fc, h)
  ELSE IF cancelRequested
       THEN Finally(MarkPendingCancelled(its), cc, fc, h)
       ELSE StartItem(its, run.items, run.index + 1, cc, fc, h)

\* CatchError leaving the loop on any error.
CatchErrorAbortsBatch(its, message, h) ==
  IF IncludesCancelled(message)
  THEN AfterItem([its EXCEPT ![run.index].status = "cancelled",
                             ![run.index].error = Null],
                 TRUE, completedCount, failedCount, h)
  ELSE AfterItem([its EXCEPT ![run.index].status = "failed",
                             ![run.index].error =
                               IF message # "" THEN message
                               ELSE "Compression failed."],
                 TRUE, completedCount, failedCount + 1, h)

\* The catch block counting a failure without writing the item's status.
CatchErrorLeavesStatus(its, message, h) ==
  IF IncludesCancelled(message)
  THEN AfterItem([its EXCEPT ![run.index].status = "cancelled",
                             ![run.index].error = Null],
                 TRUE, completedCount, failedCount, h)
  ELSE AfterItem([its EXCEPT ![run.index].error =
                               IF message # "" THEN message
                               ELSE "Compression failed."],
                 FALSE, completedCount, failedCount + 1, h)

\* The catch block for an error whose String() is message.
CatchError(its, message, h) ==
  IF IncludesCancelled(message)
  THEN AfterItem([its EXCEPT ![run.index].status = "cancelled",
                             ![run.index].error = Null],
                 TRUE, completedCount, failedCount, h)
  ELSE AfterItem([its EXCEPT ![run.index].status = "failed",
                             ![run.index].error =
                               IF message # "" THEN message
                               ELSE "Compression failed."],
                 FALSE, completedCount, failedCount + 1, h)

\* The run's record of a collaborator error on the current item.
RecordError(h, message) ==
  IF IncludesCancelled(message) THEN [h EXCEPT !.markerSeen = TRUE]
  ELSE [h EXCEPT !.failedAt = @ \cup {run.index}]

\* The three early returns of handleStartBatch.
StartRefused ==
  \/ isCompressing \/ stateIsCompressing
  \/ items = <<>>
  \/ config.outputFolderMode = "custom" /\ config.outputFolder = NoFolder

\* The one of them that is taken.
RefusalReason ==
  IF isCompressing \/ stateIsCompressing THEN "running"
  ELSE IF items = <<>> THEN "empty"
  ELSE "folder"

\* handleStartBatch doing its resets before it tests its guards.
StartBatchRejectedAfterReset ==
  /\ StartRefused
  /\ startLog.rejected < MaxRejected
  /\ startLog' = [rejected |-> startLog.rejected + 1,
                  reason |-> RefusalReason]
  /\ cancelRequested' = FALSE
  /\ isCompleted' = FALSE
  /\ completedCount' = 0
  /\ failedCount' = 0
  /\ skippedCount' = 0
  /\ UNCHANGED <<items, isCompressing, currentItemId, stateIsCompressing,
                 config, shutdownVars, run, resolving, nextId, hist, pvVars,
                 pathVars, callVars, mode, encoding, progLog>>

\* A call of handleStartBatch that one of its guards turns down: a toast at
\* most, and the return.
StartBatchRejected ==
  /\ StartRefused
  /\ startLog.rejected < MaxRejected
  /\ startLog' = [rejected |-> startLog.rejected + 1,
                  reason |-> RefusalReason]
  /\ UNCHANGED <<batchVars, config, shutdownVars, run, resolving, nextId, hist,
                 pvVars, pathVars, callVars, mode, encoding, progLog>>

\* handleStartBatch without its test of the two isCompressing flags.
StartBatchAcceptedWhileRunning ==
  /\ ControlsShown
  /\ items # <<>>
  /\ ~(config.outputFolderMode = "custom" /\ config.outputFolder = NoFolder)
  /\ config.delaySeconds > 0 => timersCreated + Len(scheduling) < MaxTimers
  /\ isCompressing' = TRUE
  /\ stateIsCompressing' = TRUE
  /\ cancelRequested' = FALSE
  /\ isCompleted' = FALSE
  /\ completedCount' = 0
  /\ failedCount' = 0
  /\ skippedCount' = 0
  /\ LET runItems == ResetItems(items)
     IN  /\ items' = [runItems EXCEPT ![1].status = "compressing"]
         /\ currentItemId' = runItems[1].id
         /\ run' = [pc |-> "info", index |-> 1, items |-> runItems,
                    outputPath |-> <<>>, convertToExtension |-> <<>>,
                    resultPath |-> <<>>]
         /\ hist' = [FreshHist EXCEPT !.n = Len(runItems),
                                      !.delaySeconds = config.delaySeconds]
  /\ startLog' = FreshStartLog
  /\ progLog' = NoProgress
  /\ UNCHANGED <<config, shutdownVars, resolving, nextId, pathVars, callVars, mode, encoding>>
  /\ PvFollow

\* A click on Start Batch that is accepted, up to the first await; limit
\* bounds the intervals the behaviour creates.
StartBatchAcceptedWithin(limit) ==
  /\ ControlsShown
  /\ ~(isCompressing \/ stateIsCompressing)
  /\ items # <<>>
  /\ ~(config.outputFolderMode = "custom" /\ config.outputFolder = NoFolder)
  /\ config.delaySeconds > 0 => timersCreated + Len(scheduling) < limit
  /\ isCompressing' = TRUE
  /\ stateIsCompressing' = TRUE
  /\ cancelRequested' = FALSE
  /\ isCompleted' = FALSE
  /\ completedCount' = 0
  /\ failedCount' = 0
  /\ skippedCount' = 0
  /\ LET runItems == ResetItems(items)
     IN  /\ items' = [runItems EXCEPT ![1].status = "compressing"]
         /\ currentItemId' = runItems[1].id
         /\ run' = [pc |-> "info", index |-> 1, items |-> runItems,
                    outputPath |-> <<>>, convertToExtension |-> <<>>,
                    resultPath |-> <<>>]
         /\ hist' = [FreshHist EXCEPT !.n = Len(runItems),
                                      !.delaySeconds = config.delaySeconds]
  /\ startLog' = FreshStartLog
  /\ progLog' = NoProgress
  /\ UNCHANGED <<config, shutdownVars, resolving, nextId, pathVars, callVars, mode, encoding>>
  /\ PvFollow

StartBatchAccepted == StartBatchAcceptedWithin(MaxTimers)

\* The duration getVideoInfo reports for a file it can read.
ProbedDuration == 4

\* The temporary file compressVideo returns.
TempFile == <<"/", "t", "/", "o">>

\* getVideoInfo resolved (with a duration or with none); the handler resolves
\* the output path and calls compressVideo, or the path resolution throws.
InfoResolved(durations, snapshots) ==
  /\ run.pc = "info"
  /\ \E duration \in durations, fs \in snapshots :
       LET its == IF duration # NoDuration
                  THEN [items EXCEPT ![run.index].durationMilliseconds = duration]
                  ELSE items
           outputPath == buildOutputPath(run.items[run.index], config, fs)
       IN  IF outputPath.ok
           THEN /\ items' = its
                /\ run' = [run EXCEPT
                            !.pc = "encode",
                            !.outputPath = outputPath.path,
                            !.convertToExtension =
                              EncoderExtension(run.items[run.index], config)]
                /\ hist' = [hist EXCEPT !.encStarted = @ \cup {run.index}]
                /\ encoding' = Append(encoding, run.items[run.index].id)
                /\ UNCHANGED <<isCompressing, isCompleted, cancelRequested,
                               currentItemId, completedCount, failedCount,
                               skippedCount, stateIsCompressing, config,
                               shutdownVars, resolving, nextId,
                               pvVars, pathVars, callVars, mode, startLog, progLog>>
           ELSE CatchError(its, outputPath.error,
                           RecordError(hist, outputPath.error))

\* A collaborator call of the current item (getVideoInfo, compressVideo,
\* moveFile or the metadata probe of the destination) rejected.
CallRejected(messages) ==
  /\ run.pc \in {"info", "encode", "move", "meta"}
  /\ \E message \in messages :
       CatchError(items, message, RecordError(hist, message))

\* compressVideo resolved with a temporary file: moveFile is called.
EncodeResolved ==
  /\ run.pc = "encode"
  /\ run' = [run EXCEPT !.pc = "move", !.resultPath = TempFile]
  /\ encoding' = Settled
  /\ UNCHANGED <<batchVars, config, shutdownVars, resolving, nextId, hist,
                 pvVars, pathVars, callVars, mode, startLog, progLog>>

\* compressVideo resolved without a filePath: the handler throws.
EncodeResolvedEmpty ==
  /\ run.pc = "encode"
  /\ CatchError(items, "Error: Compression failed.",
                RecordError(hist, "Error: Compression failed."))

\* moveFile resolved: the destination's metadata is probed.
MoveResolved ==
  /\ run.pc = "move"
  /\ run' = [run EXCEPT !.pc = "meta"]
  /\ UNCHANGED <<batchVars, config, shutdownVars, resolving, nextId, hist,
                 pvVars, pathVars, callVars, mode, traceVars>>

\* The success write without the output descriptor.
MetaResolvedNoDescriptor ==
  /\ run.pc = "meta"
  /\ AfterItem([items EXCEPT ![run.index].status = "success",
                             ![run.index].progress = 100],
               FALSE, completedCount + 1, failedCount, hist)

\* getFileMetadata(outputPath) resolved: the item is a success.
MetaResolved ==
  /\ run.pc = "meta"
  /\ AfterItem([items EXCEPT ![run.index].status = "success",
                             ![run.index].progress = 100,
                             ![run.index].output =
                               <<[pathRaw |-> run.outputPath]>>],
               FALSE, completedCount + 1, failedCount, hist)

handleCancelBatch ==
  /\ isCompressing
  /\ cancelRequested' = TRUE
  /\ hist' = [hist EXCEPT !.cancelSeen = TRUE,
                          !.cancelAt = IF @ = 0 THEN run.index ELSE @]
  /\ UNCHANGED <<items, isCompressing, isCompleted, currentItemId,
                 completedCount, failedCount, skippedCount, stateIsCompressing,
                 config, shutdownVars, run, resolving, nextId,
                 pvVars, pathVars, callVars, mode, traceVars>>

------------------------------------------------------------------------------
(* The VideoCompressionProgress listener, registered while                  *)
(* batch.isCompressing.  The payload's currentDuration and the probed       *)
(* duration are taken as the milliseconds convertDurationToMilliseconds     *)
(* gives for them (0 for an absent or zero duration); ProbedDuration        *)
(* divides 100, so the quotient below is the exact one.                     *)

\* items.findIndex((item) => item.id === videoId), 1-based, 0 when absent.
FindIndex(its, videoId) ==
  IF \E k \in 1..Len(its) : its[k].id = videoId
  THEN CHOOSE k \in 1..Len(its) :
         /\ its[k].id = videoId
         /\ \A j \in 1..(k - 1) : its[j].id # videoId
  ELSE 0

\* The percentage without the cap at 100.
ListenerProgressUncapped(currentDurationMs, durationMs) ==
  (currentDurationMs * 100) \div durationMs

\* Math.min(100, (currentDurationMs * 100) / durationMs)
ListenerProgress(currentDurationMs, durationMs) ==
  Min(100, (currentDurationMs * 100) \div durationMs)

\* One event delivered to the listener: videoId is an item whose compressVideo
\* was called in this run, currentDurationMs what the event carries.
ProgressEvent ==
  /\ isCompressing
  /\ \E k \in hist.encStarted, currentDurationMs \in 0..MaxElapsed :
       LET videoId == run.items[k].id
           index == FindIndex(items, videoId)
           durationMs == IF index = 0 THEN NoDuration
                         ELSE items[index].durationMilliseconds
       IN  IF index = 0 \/ durationMs <= 0 \/ currentDurationMs <= 0
           THEN UNCHANGED <<items, progLog>>
           ELSE LET progress == ListenerProgress(currentDurationMs, durationMs)
                IN  /\ items' = [items EXCEPT ![index].progress = progress]
                    /\ progLog' = [id |-> videoId,
                                   elapsed |-> currentDurationMs,
                                   duration |-> durationMs,
                                   written |-> items'[index].progress]
  /\ UNCHANGED <<isCompressing, isCompleted, cancelRequested, currentItemId,
                 completedCount, failedCount, skippedCount, stateIsCompressing,
                 config, shutdownVars, run, resolving, nextId, hist, pvVars,
                 pathVars, callVars, mode, encoding, startLog>>

------------------------------------------------------------------------------
(* handleScheduleShutdown, the countdown, ShutdownCountdownModal.           *)

\* The calls in flight without the k-th.
WithoutScheduling(k) ==
  SubSeq(scheduling, 1, k - 1) \o SubSeq(scheduling, k + 1, Len(scheduling))

\* scheduleSystemShutdown rejected and the countdown is started all the same.
ScheduleRejectedStartsCountdown ==
  \E k \in 1..Len(scheduling) :
    /\ scheduling' = WithoutScheduling(k)
    /\ hist' = [hist EXCEPT !.scheduleFailures = @ + 1]
    /\ shutdownTimerState' = [isPending |-> TRUE,
                              secondsRemaining |-> scheduling[k].delaySeconds,
                              timerId |-> timersCreated + 1]
    /\ timers' = timers \cup {timersCreated + 1}
    /\ timersCreated' = timersCreated + 1
    /\ UNCHANGED <<batchVars, config, platformArmed, showCountdownModal,
                   modalCancelling, orphanCancels, platformLog, run,
                   resolving, nextId, pvVars, pathVars, callVars, mode, traceVars>>

\* handleCancel clearing isPending alone.
CancelResolvedKeepsSeconds ==
  /\ shutdownTimerState' = [shutdownTimerState EXCEPT !.isPending = FALSE,
                                                      !.timerId = NoTimer]
  /\ timers' = timers \ {shutdownTimerState.timerId}
  /\ platformArmed' = FALSE
  /\ UNCHANGED <<batchVars, config, timersCreated, scheduling, platformLog,
                 run, resolving, nextId, hist, pvVars, pathVars, callVars, mode, traceVars>>

\* handleScheduleShutdown after scheduleSystemShutdown resolved for the call
\* k: the state is written, the modal is opened if the component is still
\* mounted, the interval is created and its id stored.
ScheduleResolved ==
  \E k \in 1..Len(scheduling) :
    LET delaySeconds == scheduling[k].delaySeconds
        intervalId == timersCreated + 1
    IN  /\ scheduling' = WithoutScheduling(k)
        /\ platformArmed' = TRUE
        /\ shutdownTimerState' = [isPending |-> TRUE,
                                  secondsRemaining |-> delaySeconds,
                                  timerId |-> intervalId]
        /\ showCountdownModal' = (scheduling[k].mounted \/ showCountdownModal)
        /\ timers' = timers \cup {intervalId}
        /\ timersCreated' = intervalId
        /\ UNCHANGED <<batchVars, config, modalCancelling, orphanCancels,
                       platformLog, run, resolving, nextId, hist,
                       pvVars, pathVars, callVars, mode, traceVars>>

\* scheduleSystemShutdown rejected: a toast.
ScheduleRejected ==
  \E k \in 1..Len(scheduling) :
    /\ scheduling' = WithoutScheduling(k)
    /\ hist' = [hist EXCEPT !.scheduleFailures = @ + 1]
    /\ UNCHANGED <<batchVars, config, shutdownTimerState, timers, timersCreated,
                   platformArmed, showCountdownModal, modalCancelling,
                   orphanCancels, platformLog, run, resolving, nextId,
                   pvVars, pathVars, callVars, mode, traceVars>>

\* The interval callback writing 0 where it finds nothing left to count.
TickWritesZero ==
  \E intervalId \in timers :
    LET remaining == shutdownTimerState.secondsRemaining
    IN  /\ IF remaining # NullSeconds /\ remaining > 0
           THEN /\ shutdownTimerState' =
                     [shutdownTimerState EXCEPT !.secondsRemaining = remaining - 1]
                /\ timers' = timers
           ELSE /\ timers' = timers \ {intervalId}
                /\ shutdownTimerState' =
                     [shutdownTimerState EXCEPT !.secondsRemaining = 0,
                                                !.timerId = NoTimer]
        /\ UNCHANGED <<batchVars, config, timersCreated, platformArmed,
                       scheduling, showCountdownModal, modalCancelling,
                       orphanCancels, platformLog, run, resolving, nextId, hist,
                       pvVars, pathVars, callVars, mode, traceVars>>

\* One firing of the interval callback of timer intervalId.
Tick ==
  \E intervalId \in timers :
    LET remaining == shutdownTimerState.secondsRemaining
    IN  /\ IF remaining # NullSeconds /\ remaining > 0
           THEN /\ shutdownTimerState' =
                     [shutdownTimerState EXCEPT !.secondsRemaining = remaining - 1]
                /\ timers' = timers
           ELSE /\ timers' = timers \ {intervalId}
                /\ shutdownTimerState' =
                     [shutdownTimerState EXCEPT !.timerId = NoTimer]
        /\ UNCHANGED <<batchVars, config, timersCreated, platformArmed,
                       scheduling, showCountdownModal, modalCancelling,
                       orphanCancels, platformLog, run, resolving, nextId, hist,
                       pvVars, pathVars, callVars, mode, traceVars>>

\* handleCancel of the modal up to its await of cancelSystemShutdown.
ModalCancelCall ==
  /\ showCountdownModal
  /\ ~modalCancelling
  /\ platformLog.cancelCalls < MaxCancels
  /\ modalCancelling' = TRUE
  /\ platformLog' = [platformLog EXCEPT !.cancelCalls = @ + 1]
  /\ UNCHANGED <<batchVars, config, shutdownTimerState, timers, timersCreated,
                 platformArmed, scheduling, showCountdownModal, orphanCancels,
                 run, resolving, nextId, hist, pvVars, pathVars, callVars, mode, traceVars>>

\* handleCancel after cancelSystemShutdown resolved, up to the toast: both
\* fields are cleared and the interval whose id is stored is stopped.
CancelResolved ==
  /\ shutdownTimerState' = [isPending |-> FALSE,
                            secondsRemaining |-> NullSeconds,
                            timerId |-> NoTimer]
  /\ timers' = timers \ {shutdownTimerState.timerId}
  /\ platformArmed' = FALSE
  /\ UNCHANGED <<batchVars, config, timersCreated, scheduling, platformLog,
                 run, resolving, nextId, hist, pvVars, pathVars, callVars, mode, traceVars>>

\* cancelSystemShutdown rejected: a toast.
CancelRejected ==
  /\ platformLog' = [platformLog EXCEPT !.cancelFailures = @ + 1]
  /\ UNCHANGED <<batchVars, config, shutdownTimerState, timers, timersCreated,
                 platformArmed, scheduling, run, resolving, nextId, hist,
                 pvVars, pathVars, callVars, mode, traceVars>>

\* cancelSystemShutdown resolved for the modal on screen: onClose.
ModalCancelResolved ==
  /\ modalCancelling
  /\ CancelResolved
  /\ showCountdownModal' = FALSE
  /\ modalCancelling' = FALSE
  /\ UNCHANGED orphanCancels

\* cancelSystemShutdown rejected for the modal on screen.
ModalCancelRejected ==
  /\ modalCancelling
  /\ CancelRejected
  /\ modalCancelling' = FALSE
  /\ UNCHANGED <<showCountdownModal, orphanCancels>>

\* cancelSystemShutdown resolved for a modal unmounted meanwhile: its
\* onClose and setIsCancelling write to no component.
OrphanCancelResolved ==
  /\ orphanCancels > 0
  /\ CancelResolved
  /\ orphanCancels' = orphanCancels - 1
  /\ UNCHANGED <<showCountdownModal, modalCancelling>>

\* cancelSystemShutdown rejected for a modal unmounted meanwhile.
OrphanCancelRejected ==
  /\ orphanCancels > 0
  /\ CancelRejected
  /\ orphanCancels' = orphanCancels - 1
  /\ UNCHANGED <<showCountdownModal, modalCancelling>>

------------------------------------------------------------------------------
(* The batch view: every handler above.                                     *)

Next ==
  \/ BatchPathsSelectedCall
  \/ BatchPathsSelectedReturn(ResolveResults)
  \/ BatchPathsSelectedFail
  \/ AddPathsCall
  \/ AddPathsReturn(ResolveResults)
  \/ AddPathsFail
  \/ SetShutdownDelay
  \/ StartBatchAccepted
  \/ InfoResolved({ProbedDuration}, {{}})
  \/ CallRejected({"", "CANCELLED"})
  \/ EncodeResolved
  \/ EncodeResolvedEmpty
  \/ MoveResolved
  \/ MetaResolved
  \/ handleCancelBatch
  \/ ScheduleResolved
  \/ ScheduleRejected

Spec == Init /\ [][Next]_vars

\* The batch view with its Start button pressed at any time: the destination
\* controls, accepted and refused starts, runs with every outcome of an item.
NextStart ==
  \/ BatchPathsSelectedCall
  \/ BatchPathsSelectedReturn({<<FileA>>, <<FileA, FileB>>})
  \/ SetOutputFolderMode
  \/ handleChooseOutputFolder
  \/ StartBatchRejected
  \/ StartBatchAccepted
  \/ InfoResolved({ProbedDuration}, {{}})
  \/ CallRejected({"", "CANCELLED"})
  \/ EncodeResolved
  \/ EncodeResolvedEmpty
  \/ MoveResolved
  \/ MetaResolved
  \/ handleCancelBatch

SpecStart == Init /\ [][NextStart]_vars

\* A collaborator call of the running handler settles.
RunStep ==
  \/ InfoResolved({ProbedDuration}, {{}})
  \/ CallRejected({"", "CANCELLED"})
  \/ EncodeResolved
  \/ EncodeResolvedEmpty
  \/ MoveResolved
  \/ MetaResolved

\* Every collaborator call eventually resolves or rejects.
SpecLive == Init /\ [][NextStart]_vars /\ WF_vars(RunStep)

\* Runs with the encoder's progress events.
NextProgress ==
  \/ BatchPathsSelectedCall
  \/ BatchPathsSelectedReturn({<<FileA>>, <<FileA, FileB>>})
  \/ StartBatchAccepted
  \/ InfoResolved({NoDuration, ProbedDuration}, {{}})
  \/ CallRejected({""})
  \/ EncodeResolved
  \/ MoveResolved
  \/ MetaResolved
  \/ ProgressEvent

SpecProgress == Init /\ [][NextProgress]_vars

------------------------------------------------------------------------------
(* QualityPreviewAction: handleGeneratePreview, the generator's and the      *)
(* cleanup's returns, the quality controls it reads.                         *)

\* The quality values the slider is moved between.
QualityValues == {50, 60}

\* A write of state.config.quality.
SetQuality ==
  /\ \E quality \in QualityValues \ {config.quality} :
       config' = [config EXCEPT !.quality = quality]
  /\ UNCHANGED <<batchVars, shutdownVars, run, resolving, nextId, hist,
                 pvVars, pathVars, callVars, mode, traceVars>>

\* A write of state.config.shouldEnableQuality.
ToggleQuality ==
  /\ config' = [config EXCEPT !.shouldEnableQuality = ~config.shouldEnableQuality]
  /\ UNCHANGED <<batchVars, shutdownVars, run, resolving, nextId, hist,
                 pvVars, pathVars, callVars, mode, traceVars>>

\* React renders the component again with its current state.
Rerender ==
  /\ PvMounted
  /\ pv.rendered # [isGenerating |-> pv.isGenerating,
                    previewItems |-> pv.previewItems]
  /\ pv' = [pv EXCEPT !.rendered = [isGenerating |-> pv.isGenerating,
                                    previewItems |-> pv.previewItems]]
  /\ UNCHANGED <<batchVars, config, shutdownVars, run, resolving, nextId, hist,
                 orphan, pvHist, pathVars, callVars, mode, traceVars>>

\* A click on Preview Quality that the guard of the handler turns down.
PreviewRefused ==
  /\ PvMounted
  /\ pv.rendered.isGenerating \/ stateIsCompressing \/ isCompressing
  /\ UNCHANGED vars

\* A click on Preview Quality that passes the guard: the cached items are
\* shown again, or a generation starts (up to its first await that does not
\* resolve at once: the deletes of cleanupPreviewFiles when there are paths
\* to delete, the first generateQualityPreview otherwise).
handleGeneratePreview ==
  /\ PvMounted
  /\ ~(pv.rendered.isGenerating \/ stateIsCompressing \/ isCompressing)
  /\ pvHist.requests < MaxRequests
  /\ LET currentCacheKey == buildPreviewCacheKey(items, config)
     IN  IF CacheHit(pv, currentCacheKey)
         THEN /\ pvHist' = [pvHist EXCEPT !.requests = @ + 1]
              /\ UNCHANGED <<pv, orphan>>
         ELSE /\ orphan.pc = "idle"
              /\ pvHist.renderCalls + Len(SampleItems(items)) <= MaxRenders
              /\ LET paths == Range(pv.tempPaths)
                     started == InstStarted(pv, items, currentCacheKey)
                 IN  /\ pv' = IF paths = {} THEN InstAfterCleanup(started)
                              ELSE [started EXCEPT !.pc = "cleanup"]
                     /\ pvHist' =
                          [pvHist EXCEPT
                             !.requests = @ + 1,
                             !.deleted = @ \cup paths,
                             !.renderCalls = IF paths = {} THEN @ + 1 ELSE @,
                             !.gen = [NoGeneration EXCEPT
                                        !.n = pvHist.gen.n + 1,
                                        !.live = TRUE,
                                        !.sample =
                                          [k \in 1..Len(SampleItems(items)) |->
                                             SampleItems(items)[k].id],
                                        !.prevOwned = pvHist.last.owned,
                                        !.evicted = paths],
                             !.last = [NoLast EXCEPT
                                         !.key = <<currentCacheKey>>,
                                         !.quality = config.quality,
                                         !.enabled = config.shouldEnableQuality,
                                         !.qualityChanged =
                                           /\ pvHist.last.produced
                                           /\ EffectiveQuality(
                                                config.shouldEnableQuality,
                                                config.quality)
                                              # EffectiveQuality(
                                                  pvHist.last.enabled,
                                                  pvHist.last.quality)]]
                     /\ UNCHANGED orphan
  /\ UNCHANGED <<batchVars, config, shutdownVars, run, resolving, nextId, hist,
                 pathVars, callVars, mode, traceVars>>

\* What the generator and deleteFile were asked, after a handler moved from
\* its suspension to the state next and was handed the files newPaths.
PvHistAfter(next, newPaths, live, outcome, failed) ==
  [pvHist EXCEPT
     !.returned = @ \cup newPaths,
     !.born = @ \cup {<<path, pvHist.gen.n>> : path \in newPaths},
     !.gen = IF ~live THEN @ ELSE
             [@ EXCEPT
                !.outcomes = IF outcome = "none" THEN @ ELSE Append(@, outcome),
                !.failedDeletes = @ \cup failed,
                !.done = next.pc = "idle",
                !.stored = IF next.pc = "idle" THEN next.previewItems ELSE @,
                !.keyStored = IF next.pc = "idle" THEN next.cacheKey ELSE @,
                !.report = IF next.pc = "idle" THEN next.toast ELSE @],
     !.renderCalls = IF next.pc = "render" THEN @ + 1 ELSE @,
     !.last = IF live /\ next.pc = "idle" /\ Len(next.previewItems) > 0
              THEN [@ EXCEPT !.produced = TRUE,
                             !.artifacts = next.previewItems,
                             !.owned = Range(next.tempPaths)]
              ELSE @]

\* The next pair of files the generator creates.
NextPreview == PreviewPaths(Cardinality(pvHist.returned) \div 2 + 1)

\* Every deleteFile of cleanupPreviewFiles has settled (a failure is
\* swallowed): the handler of the mounted instance goes on.
PreviewCleanupDone(mayFail) ==
  /\ pv.pc = "cleanup"
  /\ \E failed \in SUBSET (pvHist.gen.evicted \cap mayFail) :
       /\ pv' = InstCleanupSettled(pv, failed)
       /\ pvHist' = PvHistAfter(pv', {}, TRUE, "none", failed)
  /\ UNCHANGED <<batchVars, config, shutdownVars, run, resolving, nextId, hist,
                 orphan, pathVars, callVars, mode, traceVars>>

\* generateQualityPreview resolved for the mounted instance.
PreviewRenderResolved ==
  /\ pv.pc = "render"
  /\ pv' = InstRenderResolved(pv, NextPreview)
  /\ pvHist' = PvHistAfter(pv', Range(NextPreview), TRUE, "ok", {})
  /\ UNCHANGED <<batchVars, config, shutdownVars, run, resolving, nextId, hist,
                 orphan, pathVars, callVars, mode, traceVars>>

\* generateQualityPreview rejected for the mounted instance.
PreviewRenderRejected ==
  /\ pv.pc = "render"
  /\ pv' = InstRenderRejected(pv)
  /\ pvHist' = PvHistAfter(pv', {}, TRUE, "failed", {})
  /\ UNCHANGED <<batchVars, config, shutdownVars, run, resolving, nextId, hist,
                 orphan, pathVars, callVars, mode, traceVars>>

\* An unmounted instance after a step of its handler: once the handler has
\* returned nothing refers to the instance any more.
Collected(inst) == IF inst.pc = "idle" THEN PvFresh ELSE inst

\* The same three returns for the handler of an unmounted instance.
OrphanCleanupDone ==
  /\ orphan.pc = "cleanup"
  /\ orphan' = InstAfterCleanup(orphan)
  /\ pvHist' = PvHistAfter(orphan', {}, FALSE, "none", {})
  /\ UNCHANGED <<batchVars, config, shutdownVars, run, resolving, nextId, hist,
                 pv, pathVars, callVars, mode, traceVars>>

OrphanRenderResolved ==
  /\ orphan.pc = "render"
  /\ orphan' = Collected(InstRenderResolved(orphan, NextPreview))
  /\ pvHist' = PvHistAfter(orphan', Range(NextPreview), FALSE, "ok", {})
  /\ UNCHANGED <<batchVars, config, shutdownVars, run, resolving, nextId, hist,
                 pv, pathVars, callVars, mode, traceVars>>

OrphanRenderRejected ==
  /\ orphan.pc = "render"
  /\ orphan' = Collected(InstRenderRejected(orphan))
  /\ pvHist' = PvHistAfter(orphan', {}, FALSE, "failed", {})
  /\ UNCHANGED <<batchVars, config, shutdownVars, run, resolving, nextId, hist,
                 pv, pathVars, callVars, mode, traceVars>>

\* The batch list with the preview control: adding files, clearing the list,
\* the quality controls, previews, and runs that the first item's error
\* ends.
NextPreviewView ==
  \/ BatchPathsSelectedCall
  \/ BatchPathsSelectedReturn({<<FileA>>, <<FileB, FileA>>})
  \/ AddPathsCall
  \/ AddPathsReturn({<<FileA>>, <<FileB, FileA>>})
  \/ handleClearList
  \/ SetQuality
  \/ ToggleQuality
  \/ Rerender
  \/ PreviewRefused
  \/ handleGeneratePreview
  \/ PreviewCleanupDone({})
  \/ PreviewRenderResolved
  \/ PreviewRenderRejected
  \/ OrphanCleanupDone
  \/ OrphanRenderResolved
  \/ OrphanRenderRejected
  \/ StartBatchAccepted
  \/ CallRejected({"CANCELLED"})

SpecPreview == Init /\ [][NextPreviewView]_vars

\* The preview control with deletes that can fail: adding files, clearing
\* the list, the quality controls, previews.
NextCache ==
  \/ BatchPathsSelectedCall
  \/ BatchPathsSelectedReturn({<<FileA>>, <<FileB, FileA>>})
  \/ handleClearList
  \/ SetQuality
  \/ ToggleQuality
  \/ Rerender
  \/ handleGeneratePreview
  \/ PreviewCleanupDone(pvHist.returned)
  \/ PreviewRenderResolved
  \/ PreviewRenderRejected
  \/ OrphanCleanupDone
  \/ OrphanRenderResolved
  \/ OrphanRenderRejected

SpecCache == Init /\ [][NextCache]_vars

\* The naming and destination controls and runs in which every call
\* resolves, the source files being the files that exist.
NextReplace ==
  \/ BatchPathsSelectedCall
  \/ BatchPathsSelectedReturn({<<FileA>>, <<FileB, FileA>>})
  \/ SetNamingMode({"suffix", "replace"})
  \/ SetConvertToExtension
  \/ SetOutputFolderMode
  \/ handleChooseOutputFolder
  \/ StartBatchAccepted
  \/ InfoResolved({ProbedDuration}, {{FileA.path, FileB.path}})
  \/ EncodeResolved
  \/ MoveResolved
  \/ MetaResolved

SpecReplace == Init /\ [][NextReplace]_vars

\* Add requests that overlap, the list controls and runs in which every
\* call resolves.
NextList ==
  \/ BatchPathsSelectedCallWithin(MaxOverlapping)
  \/ BatchPathsSelectedReturn({<<FileA>>, <<FileB, FileA>>})
  \/ AddPathsCall
  \/ AddPathsReturn({<<FileB>>})
  \/ handleClearList
  \/ handleRemoveItem
  \/ StartBatchAccepted
  \/ InfoResolved({ProbedDuration}, {{}})
  \/ EncodeResolved
  \/ MoveResolved
  \/ MetaResolved

SpecList == Init /\ [][NextList]_vars

\* The shutdown timer: one-file runs that fail at their first call and arm
\* the shutdown when they complete, the platform's answers, the interval,
\* the modal's Cancel button, and the list emptied and filled again.
NextShutdown ==
  \/ BatchPathsSelectedCall
  \/ BatchPathsSelectedReturn({<<FileA>>})
  \/ handleClearList
  \/ SetShutdownDelay
  \/ StartBatchAccepted
  \/ CallRejected({""})
  \/ ScheduleResolved
  \/ ScheduleRejected
  \/ Tick
  \/ ModalCancelCall
  \/ ModalCancelResolved
  \/ ModalCancelRejected
  \/ OrphanCancelResolved
  \/ OrphanCancelRejected

SpecShutdown == Init /\ [][NextShutdown]_vars

\* The shutdown timer and the mode tabs of the view of the empty list.
NextMode ==
  \/ BatchPathsSelectedCall
  \/ BatchPathsSelectedReturn({<<FileA>>})
  \/ handleClearList
  \/ handleRemoveItem
  \/ switchMode
  \/ SetShutdownDelay
  \/ StartBatchAccepted
  \/ CallRejected({""})
  \/ ScheduleResolved
  \/ ScheduleRejected
  \/ Tick
  \/ ModalCancelCall
  \/ ModalCancelResolved
  \/ ModalCancelRejected
  \/ OrphanCancelResolved
  \/ OrphanCancelRejected

SpecMode == Init /\ [][NextMode]_vars

\* The shutdown timer armed again by a later run.
NextRearm ==
  \/ BatchPathsSelectedCall
  \/ BatchPathsSelectedReturn({<<FileA>>})
  \/ handleClearList
  \/ SetShutdownDelay
  \/ StartBatchAcceptedWithin(MaxRearmed)
  \/ CallRejected({""})
  \/ ScheduleResolved
  \/ ScheduleRejected
  \/ Tick
  \/ ModalCancelCall
  \/ ModalCancelResolved
  \/ ModalCancelRejected
  \/ OrphanCancelResolved
  \/ OrphanCancelRejected

SpecRearm == Init /\ [][NextRearm]_vars

\* setInterval fires its callback for as long as the interval is alive.
SpecCountdown == Init /\ [][NextShutdown]_vars /\ WF_vars(Tick)

------------------------------------------------------------------------------
(* buildOutputPath on its own: one call for each item, configuration and    *)
(* filesystem of the sets below.                                            *)

\* File names with an upper-case extension, without an extension, and a
\* Windows path.
FileUpper == [path |-> <<"/", "d", "/", "A", ".", "MP4">>,
              fileName |-> <<"A", ".", "MP4">>, extension |-> <<"MP4">>]

FileBare == [path |-> <<"/", "d", "/", "a">>,
             fileName |-> <<"a">>, extension |-> <<>>]

FileWin == [path |-> <<"C:", "\\", "d", "\\", "a", ".", "mp4">>,
            fileName |-> <<"a", ".", "mp4">>, extension |-> <<"mp4">>]

PathItems ==
  {createBatchItems(<<file>>, 1)[1] :
     file \in {FileA, FileC, FileUpper, FileBare, FileWin}}

\* Texts of the prefix and suffix fields: the default suffix, nothing, and
\* a text sanitizeNamePart reduces to nothing.
Affixes == {<<"_", "compressed">>, <<>>, <<" ", "/">>}

PathConfigs ==
  {[ConfigInit EXCEPT !.namingMode = namingMode, !.prefix = prefix,
                      !.suffix = suffix, !.convertToExtension = extension,
                      !.outputFolderMode = folderMode,
                      !.outputFolder = folder] :
     namingMode \in {"suffix", "prefix", "replace"},
     prefix \in Affixes, suffix \in Affixes,
     extension \in {"source", "mp4", "mkv"},
     folderMode \in {"source", "custom"},
     folder \in {NoFolder, PickedFolder}}

\* The files that may exist during the call: the source and the first two
\* paths resolveUniquePath tries.
PathFiles(item, cfg) ==
  LET first == buildOutputPath(item, [cfg EXCEPT !.namingMode =
                                        IF @ = "replace" THEN "suffix" ELSE @],
                               {})
  IN  {item.path} \cup
      (IF first.ok THEN {first.path, appendIndexToPath(first.path, 1)} ELSE {})

PathInit ==
  /\ BatchInit
  /\ mode = "batch"
  /\ CallsIdle
  /\ config = ConfigInit
  /\ \E item \in PathItems, cfg \in PathConfigs :
       /\ pathIn = <<[item |-> item, cfg |-> cfg]>>
       /\ pathFs \in SUBSET PathFiles(item, cfg)
  /\ pathOut = <<>>
  /\ pathLoop = IdleLoop

\* The call and its result.
PathResolve ==
  /\ pathIn # <<>>
  /\ pathOut = <<>>
  /\ pathOut' = <<buildOutputPath(pathIn[1].item, pathIn[1].cfg, pathFs)>>
  /\ UNCHANGED <<batchVars, config, shutdownVars, run, resolving, nextId, hist,
                 pvVars, pathIn, pathFs, pathLoop, callVars, mode,
                 traceVars>>

SpecPath == PathInit /\ [][PathResolve]_vars

\* mergeBatchItems on its own: lists of up to two existing and up to three
\* incoming items of three files, with the ids createBatchItems gave them.
MaxExisting == 2

MaxIncoming == 3

MergeInit ==
  /\ BatchInit
  /\ mode = "batch"
  /\ config = ConfigInit
  /\ PathIdle
  /\ keyIn = <<>>
  /\ keyOut = <<>>
  /\ mergeOut = <<>>
  /\ \E old \in UNION {[1..n -> {FileA, FileB, FileC}] : n \in 0..MaxExisting},
        new \in UNION {[1..n -> {FileA, FileB, FileC}] : n \in 0..MaxIncoming} :
       mergeIn = <<[existing |-> createBatchItems(old, 1),
                    incoming |-> createBatchItems(new, MaxExisting + 1)]>>

\* The call, and the call that merges the same incoming list into its
\* result.
MergeCalled ==
  /\ mergeIn # <<>>
  /\ mergeOut = <<>>
  /\ LET merged == mergeBatchItems(mergeIn[1].existing, mergeIn[1].incoming)
     IN  mergeOut' = <<[merged |-> merged,
                        again |-> mergeBatchItems(merged,
                                                  mergeIn[1].incoming)]>>
  /\ UNCHANGED <<batchVars, config, shutdownVars, run, resolving, nextId, hist,
                 pvVars, pathVars, keyIn, keyOut, mergeIn, mode, traceVars>>

SpecMerge == MergeInit /\ [][MergeCalled]_vars

\* buildPreviewCacheKey and the render calls of a generation, from one
\* state of the application: the switches and values of the settings, in
\* the batch mode lists of one, two and four items, in the single mode the
\* selected video and the transform history.
PreviewConfigs ==
  {[namingMode |-> namingMode, convertToExtension |-> extension,
    shouldDisableCompression |-> disabled, presetName |-> presetName,
    shouldMuteVideo |-> mute,
    shouldEnableQuality |-> enableQuality, quality |-> quality,
    shouldEnableCustomDimensions |-> enableDimensions,
    customDimensions |-> dimensions,
    shouldEnableCustomFPS |-> enableFPS, customFPS |-> fps,
    shouldTransformVideo |-> FALSE, transformsHistory |-> <<>>] :
     namingMode \in {"suffix", "replace"},
     extension \in {"source", "mp4", "mkv"},
     disabled \in BOOLEAN, presetName \in {"ironclad", "thunderbolt"},
     mute \in BOOLEAN,
     enableQuality \in BOOLEAN, quality \in {50, 70},
     enableDimensions \in BOOLEAN,
     dimensions \in {<<>>, <<<<1280, 720>>>>, <<<<640, 360>>>>},
     enableFPS \in BOOLEAN, fps \in {<<>>, <<30>>, <<60>>}}

KeyInit ==
  /\ BatchInit
  /\ config = ConfigInit
  /\ PathIdle
  /\ mergeIn = <<>>
  /\ mergeOut = <<>>
  /\ keyOut = <<>>
  /\ \E cfg \in PreviewConfigs :
       \/ /\ mode = "batch"
          /\ \E its \in {createBatchItems(files, 1) :
                          files \in {<<FileA>>, <<FileB>>, <<FileB, FileA>>,
                                     <<FileA, FileB, FileC, FileUpper>>,
                                     <<FileA, FileB, FileC, FileBare>>}}
                        \cup {createBatchItems(<<FileA>>, 2)} :
               keyIn = <<[video |-> [pathRaw |-> <<>>, extension |-> <<>>],
                          items |-> its, config |-> cfg]>>
       \/ /\ mode = "single"
          /\ cfg.namingMode = "suffix"
          /\ \E pathRaw \in {<<>>, << <<>> >>, <<FileA.path>>},
                extension \in {<<>>, << <<"mp4">> >>, << <<"mkv">> >>},
                transform \in BOOLEAN,
                history \in {<<>>, << <<>> >>, << <<"rotate">> >>,
                             << <<"rotate", "flip">> >>} :
               keyIn = <<[video |-> [pathRaw |-> pathRaw,
                                     extension |-> extension],
                          items |-> <<>>,
                          config |-> [cfg EXCEPT
                                        !.shouldTransformVideo = transform,
                                        !.transformsHistory = history]]>>

\* handleGeneratePreview's call of buildPreviewCacheKey, and the render
\* calls the generation it starts issues from the same snapshot.
KeyBuilt ==
  /\ keyIn # <<>>
  /\ keyOut = <<>>
  /\ LET state == keyIn[1]
     IN  keyOut' =
           IF mode = "single"
           THEN <<[key |-> buildSinglePreviewCacheKey(state.video,
                                                     state.config),
                   calls |-> singleRenderCalls(state.video, state.config)]>>
           ELSE <<[key |-> buildPreviewCacheKey(state.items, state.config),
                   calls |-> batchRenderCalls(state.items, state.config)]>>
  /\ UNCHANGED <<batchVars, config, shutdownVars, run, resolving, nextId, hist,
                 pvVars, pathVars, keyIn, mergeIn, mergeOut, mode, traceVars>>

SpecKey == KeyInit /\ [][KeyBuilt]_vars

\* resolveUniquePath among many files of the same name, one step for each
\* await of pathExists.  Candidate(path, k) is the k-th value of the loop's
\* variable candidate.
Candidate(path, k) == IF k = 0 THEN path ELSE appendIndexToPath(path, k)

\* How many of the candidates exist, counted from the base path on.
FillLevels == {0, 1, 2, 3, RetryCeiling - 1, RetryCeiling, RetryCeiling + 1}

\* Candidates that are free among the occupied ones.
Holes == {{}, {1}, {2}, {RetryCeiling - 2}}

CollideItems ==
  {createBatchItems(<<file>>, 1)[1] : file \in {FileA, FileBare}}

CollideConfigs == {[ConfigInit EXCEPT !.convertToExtension = "source"]}

CollideInit ==
  /\ BatchInit
  /\ mode = "batch"
  /\ CallsIdle
  /\ config = ConfigInit
  /\ \E item \in CollideItems, cfg \in CollideConfigs :
       /\ pathIn = <<[item |-> item, cfg |-> cfg]>>
       /\ \E level \in FillLevels, hole \in Holes :
            pathFs = {Candidate(buildOutputPath(item, cfg, {}).path, k) :
                        k \in (0..(level - 1)) \ hole}
  /\ pathOut = <<>>
  /\ pathLoop = IdleLoop

\* buildOutputPath calls resolveUniquePath(path): candidate = path,
\* index = 1, and the first pathExists(candidate) is awaited.
ResolveUniquePathCall ==
  /\ pathLoop.pc = "idle"
  /\ pathIn # <<>>
  /\ pathOut = <<>>
  /\ LET path == buildOutputPath(pathIn[1].item, pathIn[1].cfg, {}).path
     IN  pathLoop' = [pc |-> "probing", path |-> path, candidate |-> path,
                      index |-> 1]
  /\ UNCHANGED <<batchVars, config, shutdownVars, run, resolving, nextId, hist,
                 pvVars, pathIn, pathFs, pathOut, callVars, mode,
                 traceVars>>

\* One pass of the loop body: the next candidate, the increment, the throw.
LoopBody ==
  LET candidate == appendIndexToPath(pathLoop.path, pathLoop.index)
      index     == pathLoop.index + 1
  IN  IF index > RetryCeiling
      THEN /\ pathLoop' = [pathLoop EXCEPT !.pc = "done",
                                           !.candidate = candidate,
                                           !.index = index]
           /\ pathOut' = <<[ok |-> FALSE, path |-> <<>>,
                            error |-> "Error: Too many files with the same name.",
                            probes |-> <<>>]>>
      ELSE /\ pathLoop' = [pathLoop EXCEPT !.candidate = candidate,
                                           !.index = index]
           /\ pathOut' = pathOut

\* pathExists(candidate) settled: the loop body, or the return.
PathExistsSettled ==
  /\ pathLoop.pc = "probing"
  /\ IF pathExists(pathLoop.candidate, pathFs)
     THEN LoopBody
     ELSE /\ pathLoop' = [pathLoop EXCEPT !.pc = "done"]
          /\ pathOut' = <<[ok |-> TRUE, path |-> pathLoop.candidate,
                           error |-> Null, probes |-> <<>>]>>
  /\ UNCHANGED <<batchVars, config, shutdownVars, run, resolving, nextId, hist,
                 pvVars, pathIn, pathFs, callVars, mode,
                 traceVars>>

NextCollide ==
  \/ ResolveUniquePathCall
  \/ PathExistsSettled

SpecCollide == CollideInit /\ [][NextCollide]_vars

------------------------------------------------------------------------------
(* Properties of the batch run (specification Spec).                        *)

\* A run has been accepted and has completed; nothing was started since.
RunCompleted == hist.n > 0 /\ ~isCompressing /\ isCompleted

\* C1: in the step that completes a run (isCompressing goes from true to
\* false, isCompleted is set), every item of the list has a status among
\* success, failed, cancelled, skipped, whatever ended the loop.
C1_AllTerminalAtCompletion ==
  [][(isCompressing /\ ~isCompressing')
       => \A k \in 1..Len(items') : items'[k].status \in TerminalStatuses]_vars

\* C2: when handleCancelBatch was called while item k of an n-item run was
\* compressing, no encoder invocation is ever started for an item k+1..n, and
\* once the run has completed each of them has status cancelled.
C2_CancelStopsLaterItems ==
  hist.cancelAt > 0 =>
    \A j \in (hist.cancelAt + 1)..hist.n :
      /\ j \notin hist.encStarted
      /\ RunCompleted => items[j].status = "cancelled"

C2_Witness ==
  /\ RunCompleted
  /\ hist.n = 3
  /\ hist.cancelAt = 1
  /\ items[1].status = "success"
  /\ items[2].status = "cancelled"
  /\ items[3].status = "cancelled"

\* C3: with no cancellation requested and no error carrying the cancelled
\* marker, every item whose processing failed is failed with a non-null error
\* message, failedCount counts exactly these items, the items before the
\* current one are all processed, and at completion every item of the run is
\* success or failed with completedCount the number of successes.
C3_PartialFailureIsolation ==
  (hist.n > 0 /\ ~hist.cancelSeen /\ ~hist.markerSeen) =>
    /\ \A i \in hist.failedAt :
         items[i].status = "failed" /\ items[i].error # Null
    /\ failedCount = Cardinality(hist.failedAt)
    /\ isCompressing =>
         \A j \in 1..(run.index - 1) : items[j].status \in {"success", "failed"}
    /\ RunCompleted =>
         /\ \A j \in 1..hist.n : items[j].status \in {"success", "failed"}
         /\ completedCount = hist.n - Cardinality(hist.failedAt)
         /\ \A j \in 1..hist.n :
              items[j].status = "success" <=> j \notin hist.failedAt

C3_Witness ==
  /\ RunCompleted
  /\ hist.n = 3
  /\ ~hist.cancelSeen
  /\ hist.failedAt = {2}
  /\ 2 \in hist.encStarted
  /\ items[1].status = "success"
  /\ items[2].status = "failed"
  /\ items[2].error # Null
  /\ items[3].status = "success"
  /\ failedCount = 1
  /\ completedCount = 2

\* C4: when cancellation was requested during a run, no platform shutdown
\* request is issued for that run.
C4_NoShutdownAfterCancel ==
  hist.cancelSeen => hist.shutdownCalls = <<>>

\* C5: a run that completes without a cancellation request and with a shutdown
\* delay d > 0 calls scheduleSystemShutdown(d) exactly once, with isCompressing
\* already false and isCompleted already true; no call is made while the run
\* is on, and none with delay 0.
C5_ShutdownOnceAfterCompletion ==
  /\ isCompressing => hist.shutdownCalls = <<>>
  /\ hist.delaySeconds = 0 => hist.shutdownCalls = <<>>
  /\ (RunCompleted /\ ~hist.cancelSeen /\ hist.delaySeconds > 0) =>
       hist.shutdownCalls = <<[delaySeconds |-> hist.delaySeconds,
                               isCompressing |-> FALSE,
                               isCompleted |-> TRUE]>>

C5_Witness ==
  /\ RunCompleted
  /\ ~hist.cancelSeen
  /\ hist.delaySeconds = MaxDelay
  /\ Len(hist.shutdownCalls) = 1
  /\ scheduling = <<[delaySeconds |-> MaxDelay, mounted |-> TRUE]>>

------------------------------------------------------------------------------
(* Properties of buildOutputPath (specification SpecPath).                  *)

\* C6: in the naming modes suffix and prefix a path that buildOutputPath
\* returns is the last path it probed, that probe found nothing, every
\* earlier probe found a file, and so the path is none that exists, the
\* source file included.
C6_ReturnedPathDidNotExist ==
  (/\ pathOut # <<>>
   /\ pathIn[1].cfg.namingMode \in {"suffix", "prefix"}
   /\ pathOut[1].ok)
    => LET result == pathOut[1]
           n == Len(result.probes)
       IN  /\ n >= 1
           /\ result.probes[n] = result.path
           /\ ~pathExists(result.path, pathFs)
           /\ \A k \in 1..(n - 1) : pathExists(result.probes[k], pathFs)
           /\ pathIn[1].item.path \in pathFs
                => result.path # pathIn[1].item.path

\* The suffix sanitizes to nothing, the extension is the source's, the
\* source exists: the first candidate is the source path and the call
\* returns the first numbered path.
C6_Witness ==
  /\ pathOut # <<>>
  /\ pathOut[1].ok
  /\ pathIn[1].cfg.namingMode = "suffix"
  /\ sanitizeNamePart(pathIn[1].cfg.suffix) = <<>>
  /\ pathIn[1].cfg.convertToExtension = "source"
  /\ pathIn[1].cfg.outputFolderMode = "source"
  /\ pathIn[1].item.path \in pathFs
  /\ pathOut[1].probes[1] = pathIn[1].item.path
  /\ Len(pathOut[1].probes) = 2
  /\ pathOut[1].path = <<"/", "d", "/", "a", "_", "1", ".", "mp4">>

\* C7: in naming mode replace buildOutputPath returns the item's path, with
\* no probe and no error, for every item, configuration and filesystem.
C7_ReplaceReturnsSourcePath ==
  (pathOut # <<>> /\ pathIn[1].cfg.namingMode = "replace")
    => /\ pathOut[1].ok
       /\ pathOut[1].path = pathIn[1].item.path
       /\ pathOut[1].probes = <<>>
       /\ pathOut[1].error = Null

\* Replace with the destination mode custom and no folder set, the source
\* file existing.
C7_Witness ==
  /\ pathOut # <<>>
  /\ pathIn[1].cfg.namingMode = "replace"
  /\ pathIn[1].cfg.outputFolderMode = "custom"
  /\ pathIn[1].cfg.outputFolder = NoFolder
  /\ pathIn[1].item.path \in pathFs
  /\ pathOut[1].path = pathIn[1].item.path

------------------------------------------------------------------------------
(* Properties of the preview cache (specification SpecPreview).             *)

\* The step is a click on Preview Quality that passed the guard.
PreviewRequested == pvHist'.requests = pvHist.requests + 1

\* C8: a preview request whose cache key equals the key of the previous
\* request of the same component, that request having produced at least one
\* artifact, issues no render call and no delete and leaves the component
\* with the artifacts the first request stored.
C8_SameKeyNoRegeneration ==
  [][(/\ PreviewRequested
      /\ pvHist.last.produced
      /\ pvHist.last.key = <<buildPreviewCacheKey(items, config)>>)
       => /\ pvHist'.renderCalls = pvHist.renderCalls
          /\ pvHist'.deleted = pvHist.deleted
          /\ pvHist'.returned = pvHist.returned
          /\ pv'.pc = "idle"
          /\ Len(pv'.previewItems) > 0
          /\ pv'.previewItems = pvHist.last.artifacts
          /\ pv'.tempPaths = pv.tempPaths]_vars

\* Two requests were accepted, one render call was made and it produced the
\* entry now cached: the second request was served from the cache.
C8_Witness ==
  /\ PvMounted
  /\ pvHist.requests = 2
  /\ pvHist.renderCalls = 1
  /\ pvHist.last.produced
  /\ pvHist.deleted = {}
  /\ Len(pv.previewItems) = 1

\* The request starts a generation: the deletes of the files in owned have
\* gone out and no render call has been made yet.
Regenerates(owned) ==
  /\ pv'.pc = "cleanup"
  /\ pv'.isGenerating
  /\ owned # {}
  /\ owned \subseteq pvHist'.deleted
  /\ pvHist'.renderCalls = pvHist.renderCalls

\* The handler (of the mounted instance or of one unmounted meanwhile) leaves
\* the await of the cleanup only into a generateQualityPreview call.
CleanupLeadsToRender ==
  /\ (pv.pc = "cleanup" /\ pv' # pv)
       => \/ pv'.pc = "render" /\ pvHist'.renderCalls = pvHist.renderCalls + 1
          \/ pv' = PvFresh /\ orphan'.pc = "cleanup"
  /\ (orphan.pc = "cleanup" /\ orphan' # orphan)
       => orphan'.pc = "render" /\ pvHist'.renderCalls = pvHist.renderCalls + 1

\* C9 as stated: a preview request made after state.config.quality changed
\* since the last generated preview starts a generation, the deletes of the
\* previous entry's files going out before the first new render call.
C9_QualityValueChangeRegenerates ==
  [][(/\ PreviewRequested
      /\ pvHist.last.produced
      /\ config.quality # pvHist.last.quality)
       => Regenerates(pvHist.last.owned)]_vars

\* C9 amended: the same for a change of the quality in effect (the value of
\* state.config.quality while shouldEnableQuality is set, none while it is
\* not); the generation started goes on to call the generator.
C9_EffectiveQualityChangeRegenerates ==
  [][/\ (/\ PreviewRequested
         /\ pvHist.last.produced
         /\ EffectiveQuality(config.shouldEnableQuality, config.quality)
              # EffectiveQuality(pvHist.last.enabled, pvHist.last.quality))
          => Regenerates(pvHist.last.owned)
     /\ CleanupLeadsToRender]_vars

\* A request replaced an entry rendered with another quality: the two files
\* of the old entry have their deletes out and the new render is in flight.
C9_Witness ==
  /\ pvHist.last.qualityChanged
  /\ pv.pc = "render"
  /\ pvHist.renderCalls = 2
  /\ Cardinality(pvHist.deleted) = 2
  /\ pvHist.returned = pvHist.deleted

\* C10: once the component is unmounted and no handler of it is suspended
\* in a call, a delete has been issued for every file the generator ever
\* returned.
C10_NoTempFileLeak ==
  (~PvMounted /\ pv.pc = "idle" /\ orphan.pc = "idle")
    => pvHist.returned \subseteq pvHist.deleted

------------------------------------------------------------------------------
(* Properties of the progress listener (specification SpecProgress).        *)

\* C11: within one run, from the moment an item has become compressing until
\* the run completes, no step lowers the item's progress, whatever the order
\* of the progress events and also for an event that arrives after the item
\* was marked success with progress 100.
C11_ProgressNeverDecreases ==
  [][isCompressing =>
       \A k \in 1..Len(items) :
         (/\ k <= Len(items')
          /\ items'[k].id = items[k].id
          /\ items[k].status # "pending")
           => items'[k].progress >= items[k].progress]_vars

\* C12: every progress value in an item is within [0,100]; a value the
\* listener writes is min(100, 100*elapsed/duration) for the item's duration;
\* and for the same item and duration an event whose elapsed time is not
\* smaller than the previous one's writes a value that is not smaller.
C12_ProgressFormula ==
  [][/\ \A k \in 1..Len(items') : items'[k].progress \in 0..100
     /\ progLog' # progLog /\ progLog'.id # NoId =>
          /\ progLog'.duration > 0
          /\ progLog'.written \in 0..100
          /\ IF progLog'.elapsed >= progLog'.duration
             THEN progLog'.written = 100
             ELSE progLog'.written * progLog'.duration = 100 * progLog'.elapsed
          /\ (/\ progLog.id = progLog'.id
              /\ progLog.duration = progLog'.duration
              /\ progLog'.elapsed >= progLog.elapsed)
               => progLog'.written >= progLog.written]_vars

\* The listener has written the capped value for an event past the item's
\* duration, into the item that is compressing.
C12_Witness ==
  /\ isCompressing
  /\ progLog.id # NoId
  /\ progLog.id = currentItemId
  /\ progLog.elapsed > progLog.duration
  /\ \E k \in 1..Len(items) :
       /\ items[k].id = progLog.id
       /\ items[k].status = "compressing"
       /\ items[k].progress = 100

------------------------------------------------------------------------------
(* Properties of the Start button (specification SpecStart).                *)

\* C13: a start is refused while a run is on, with an empty list, and in
\* custom destination mode without a folder; a refused start leaves the
\* batch state, the handler's activation and the encoder calls as they
\* were, and with no run on no run begins where one of the three holds.
C13_RejectedStartChangesNothing ==
  [][/\ startLog'.rejected > startLog.rejected =>
          /\ batchVars' = batchVars
          /\ run' = run
          /\ encoding' = encoding
          /\ hist' = hist
     /\ StartRefused /\ ~isCompressing =>
          /\ ~isCompressing'
          /\ run' = run
          /\ encoding' = encoding]_vars

\* A start was refused for the missing custom folder, after a completed run
\* whose results are still in the list.
C13_Witness ==
  /\ startLog.rejected > 0
  /\ startLog.reason = "folder"
  /\ config.outputFolderMode = "custom"
  /\ config.outputFolder = NoFolder
  /\ isCompleted
  /\ ~isCompressing
  /\ completedCount > 0

\* C14: at every point at most one compressVideo call of the batch handler
\* is in flight and at most one item is compressing, also when Start is
\* pressed again and again during a run.
C14_OneEncoderAtATime ==
  /\ Len(encoding) <= 1
  /\ Cardinality({k \in 1..Len(items) : items[k].status = "compressing"}) <= 1

\* Start was pressed twice during a run whose encoder call is in flight.
C14_Witness ==
  /\ isCompressing
  /\ startLog.rejected >= 2
  /\ startLog.reason = "running"
  /\ Len(encoding) = 1
  /\ \E k \in 1..Len(items) : items[k].status = "compressing"

------------------------------------------------------------------------------
(* Properties of the item loop (specification Spec).                        *)

\* C15: items are processed in list order: an item becomes compressing only
\* when every item before it is success, failed or cancelled, it is then the
\* current item, and currentItemId moves to later list positions only.
C15_ListOrder ==
  [][/\ \A k \in 1..Len(items') :
          (/\ k <= Len(items)
           /\ items[k].status # "compressing"
           /\ items'[k].status = "compressing")
            => /\ \A j \in 1..(k - 1) :
                    items'[j].status \in {"success", "failed", "cancelled"}
               /\ currentItemId' = items'[k].id
     /\ (/\ currentItemId # NoId
         /\ currentItemId' # NoId
         /\ currentItemId' # currentItemId)
          => FindIndex(items, currentItemId) < FindIndex(items', currentItemId')
    ]_vars

\* The third item is compressing after a success and a failure.
C15_Witness ==
  /\ Len(items) = 3
  /\ items[1].status = "success"
  /\ items[2].status = "failed"
  /\ items[3].status = "compressing"
  /\ currentItemId = items[3].id

\* C16: when cancellation has been requested and the encoder call of the
\* item in flight then ends with an error, with the cancelled marker or
\* without it, the item becomes cancelled, not failed, and failedCount stays.
C16_CancelledNotFailed ==
  [][(/\ cancelRequested
      /\ run.pc = "encode"
      /\ run'.pc # "move"
      /\ items'[run.index].status # "compressing")
       => /\ items'[run.index].status = "cancelled"
          /\ failedCount' = failedCount]_vars

\* C17: every success item has an output descriptor, and an item becomes
\* success only in the step that follows the metadata probe of the
\* destination, after the encoder returned a temporary file and the move to
\* the resolved destination went through.
C17_SuccessHasOutput ==
  [][\A k \in 1..Len(items') :
       items'[k].status = "success" =>
         /\ items'[k].output # NoOutput
         /\ (k > Len(items) \/ items[k].status # "success") =>
              /\ run.pc = "meta"
              /\ run.index = k
              /\ run.resultPath # <<>>
              /\ encoding = <<>>
              /\ items'[k].output[1].pathRaw = run.outputPath
              /\ items'[k].progress = 100]_vars

\* A completed run whose three items are success with their descriptors.
C17_Witness ==
  /\ isCompleted
  /\ ~isCompressing
  /\ Len(items) = 3
  /\ completedCount = 3
  /\ \A k \in 1..3 :
       items[k].status = "success" /\ items[k].output # NoOutput

\* C18: within a run a status moves only pending -> compressing, pending ->
\* cancelled, pending -> skipped and compressing -> success, failed or
\* cancelled: no terminal status is left and compressing never goes back.
C18_StatusMovesForward ==
  [][isCompressing =>
       \A k \in 1..Len(items) :
         (/\ k <= Len(items')
          /\ items'[k].id = items[k].id
          /\ items'[k].status # items[k].status)
           => \/ /\ items[k].status = "pending"
                 /\ items'[k].status \in {"compressing", "cancelled", "skipped"}
              \/ /\ items[k].status = "compressing"
                 /\ items'[k].status \in {"success", "failed", "cancelled"}
    ]_vars

\* A completed run with every forward move: a success, a failure after the
\* cancel, and an item cancelled without having been started.
C18_Witness ==
  /\ isCompleted
  /\ ~isCompressing
  /\ Len(items) = 3
  /\ items[1].status = "success"
  /\ items[2].status = "failed"
  /\ items[3].status = "cancelled"
  /\ hist.encStarted = {1, 2}
  /\ hist.cancelSeen

\* C19: cancelRequested goes from true to false only in the step that
\* accepts a new run; a completed cancelled run leaves it true.
C19_CancelFlagResetOnlyByStart ==
  [][cancelRequested /\ ~cancelRequested' =>
       ~isCompressing /\ isCompressing']_vars

------------------------------------------------------------------------------
(* Termination of a run (specification SpecLive).                           *)

\* C20: with every collaborator call settling, an accepted run reaches
\* isCompressing = false, isCompleted = true and currentItemId = null.
C20_RunCompletes ==
  isCompressing ~> (~isCompressing /\ isCompleted /\ currentItemId = NoId)

\* A run of two items has completed after a failure and a cancel.
C20_Witness ==
  /\ ~isCompressing
  /\ isCompleted
  /\ currentItemId = NoId
  /\ run.pc = "idle"
  /\ hist.n = 2
  /\ hist.failedAt # {}
  /\ hist.cancelSeen

-------------------------------------------------------------------------------
(* The preview cache holds one generation.                                  *)

\* The generations the files of owned were rendered for.
GenerationsOf(owned, born) ==
  {g \in 0..MaxRenders + 1 : \E path \in owned : <<path, g>> \in born}

\* The step issues the first render call of a generation of the mounted
\* instance.
FirstRenderIssued ==
  /\ pvHist'.renderCalls > pvHist.renderCalls
  /\ pvHist'.gen.live
  /\ pv'.pc = "render"
  /\ pv'.idx = 1

\* C21: the files the preview component owns were all rendered for one
\* generation, and when the first render call of a generation is issued
\* the owned set is empty and a delete has been sent for every file the
\* generation before it owned.
C21_CacheSingleSlot ==
  [][/\ Cardinality(GenerationsOf(Range(pv'.tempPaths), pvHist'.born)) <= 1
     /\ FirstRenderIssued =>
          /\ pv'.tempPaths = <<>>
          /\ pvHist'.gen.evicted = pvHist'.gen.prevOwned
          /\ pvHist'.gen.prevOwned \subseteq pvHist'.deleted]_vars

\* A second generation owns its files, the files of the first having been
\* evicted.
C21_Witness ==
  /\ pvHist.gen.live
  /\ pvHist.gen.n >= 2
  /\ pvHist.gen.prevOwned # {}
  /\ pv.tempPaths # <<>>

-------------------------------------------------------------------------------
(* A preview of which some renders failed.                                  *)

RECURSIVE RenderedIds(_, _)
\* The ids of sample whose render has the outcome ok, in the order of sample.
RenderedIds(sample, outcomes) ==
  IF sample = <<>> \/ outcomes = <<>> THEN <<>>
  ELSE (IF Head(outcomes) = "ok" THEN <<Head(sample)>> ELSE <<>>)
       \o RenderedIds(Tail(sample), Tail(outcomes))

\* The handler of the generation started last has returned, on a mounted
\* instance.
GenerationDone == pvHist.gen.live /\ pvHist.gen.done

\* C22: once the handler of a generation has returned, a render was asked
\* for every sampled item whatever the renders before it answered; and if
\* some renders failed and some succeeded, the artifacts shown are those of
\* the succeeded items in list order, they are stored with the key of the
\* request as the cached entry, two owned files for each, and the partial
\* failure is reported.
C22_PartialFailureKeepsSucceeded ==
  GenerationDone =>
    /\ Len(pvHist.gen.outcomes) = Len(pvHist.gen.sample)
    /\ ("ok" \in Range(pvHist.gen.outcomes)
        /\ "failed" \in Range(pvHist.gen.outcomes)) =>
         /\ [k \in 1..Len(pvHist.gen.stored) |-> pvHist.gen.stored[k].id]
              = RenderedIds(pvHist.gen.sample, pvHist.gen.outcomes)
         /\ pv.previewItems = pvHist.gen.stored
         /\ pvHist.gen.keyStored = pvHist.last.key
         /\ pv.cacheKey = pvHist.last.key
         /\ Len(pv.tempPaths) = 2 * Len(pvHist.gen.stored)
         /\ pvHist.gen.report = "some failed"

\* The first sampled item failed to render and the second was rendered and
\* is shown.
C22_Witness ==
  /\ GenerationDone
  /\ pvHist.gen.outcomes = <<"failed", "ok">>
  /\ Len(pvHist.gen.stored) = 1
  /\ pvHist.gen.report = "some failed"

-------------------------------------------------------------------------------
(* Deletes of temp files that fail.                                         *)

\* The step settles the deletes of a cleanup, some of them rejected.
DeletesFailed ==
  /\ pvHist'.gen.n = pvHist.gen.n
  /\ pvHist.gen.failedDeletes = {}
  /\ pvHist'.gen.failedDeletes # {}

\* C23: when the deletes of a cleanup have settled, whichever of them were
\* rejected, the handler goes on to its first render call without a toast;
\* and the generation it belongs to, once its handler has returned, has
\* asked a render for every sampled item and shows an artifact for each
\* render that succeeded.
C23_DeleteFailureAbsorbed ==
  [][/\ DeletesFailed =>
          /\ pv'.pc = "render"
          /\ pv'.idx = 1
          /\ pv'.toast = "none"
          /\ pvHist'.renderCalls = pvHist.renderCalls + 1
     /\ (pvHist'.gen.failedDeletes # {} /\ pvHist'.gen.live
         /\ pvHist'.gen.done) =>
          /\ Len(pvHist'.gen.outcomes) = Len(pvHist'.gen.sample)
          /\ Len(pvHist'.gen.stored)
               = Len(RenderedIds(pvHist'.gen.sample, pvHist'.gen.outcomes))
          /\ pvHist'.gen.report # "could not generate"]_vars

\* Every delete of a cleanup failed and the generation completed with an
\* artifact.
C23_Witness ==
  /\ GenerationDone
  /\ pvHist.gen.evicted # {}
  /\ pvHist.gen.failedDeletes = pvHist.gen.evicted
  /\ Len(pvHist.gen.stored) > 0
  /\ pvHist.gen.report = "none"

-------------------------------------------------------------------------------
(* The shutdown timer (specifications SpecShutdown and SpecCountdown).      *)

\* The cancelSystemShutdown calls in flight.
CancelsInFlight == orphanCancels + (IF modalCancelling THEN 1 ELSE 0)

\* The step settles a cancelSystemShutdown call with success.
CancelSucceeded ==
  /\ CancelsInFlight' < CancelsInFlight
  /\ platformLog'.cancelFailures = platformLog.cancelFailures

\* The step settles a scheduleSystemShutdown call with a failure.
ScheduleFailed == hist'.scheduleFailures > hist.scheduleFailures

\* The step settles a cancelSystemShutdown call with a failure.
CancelFailed == platformLog'.cancelFailures > platformLog.cancelFailures

\* C24: whenever isPending is set secondsRemaining is a number that is not
\* negative, and a successful cancel clears isPending and secondsRemaining
\* in the same step, so that no state has one of them cleared and not the
\* other.
C24_PendingHasSeconds ==
  [][/\ shutdownTimerState'.isPending =>
          /\ shutdownTimerState'.secondsRemaining # NullSeconds
          /\ shutdownTimerState'.secondsRemaining >= 0
     /\ ~shutdownTimerState'.isPending =>
          shutdownTimerState'.secondsRemaining = NullSeconds
     /\ CancelSucceeded =>
          /\ ~shutdownTimerState'.isPending
          /\ shutdownTimerState'.secondsRemaining = NullSeconds]_vars

\* A countdown that was cancelled with success while it was running.
C24_Witness ==
  /\ timersCreated >= 1
  /\ platformLog.cancelCalls > platformLog.cancelFailures
  /\ CancelsInFlight = 0
  /\ ~shutdownTimerState.isPending
  /\ shutdownTimerState.secondsRemaining = NullSeconds

\* C25: a rejected scheduleSystemShutdown and a rejected
\* cancelSystemShutdown leave shutdownTimerState and the intervals as they
\* were, so that a failed arming of a disarmed timer leaves it disarmed
\* without an interval and a failed cancel leaves the countdown running;
\* neither changes an item or a counter.
C25_PlatformFailureChangesNothing ==
  [][(ScheduleFailed \/ CancelFailed) =>
        /\ shutdownTimerState' = shutdownTimerState
        /\ timers' = timers
        /\ timersCreated' = timersCreated
        /\ items' = items
        /\ completedCount' = completedCount
        /\ failedCount' = failedCount
        /\ skippedCount' = skippedCount
        /\ (ScheduleFailed /\ ~shutdownTimerState.isPending) =>
             /\ ~shutdownTimerState'.isPending
             /\ shutdownTimerState'.secondsRemaining = NullSeconds
             /\ shutdownTimerState'.timerId = NoTimer]_vars

\* A cancel of a running countdown failed: the countdown is still running.
C25_Witness ==
  /\ platformLog.cancelFailures >= 1
  /\ CancelsInFlight = 0
  /\ shutdownTimerState.isPending
  /\ shutdownTimerState.timerId \in timers

\* The first half of C26: isPending is set only by the step in which a
\* scheduleSystemShutdown call resolved, with secondsRemaining the delay of
\* that call; afterwards secondsRemaining changes only by one down, not
\* below 0, or by a new arming or a disarming; and an interval that fires
\* at 0 stops itself.
ArmThenCountDown ==
  /\ (~shutdownTimerState.isPending /\ shutdownTimerState'.isPending) =>
       /\ platformArmed'
       /\ \E k \in 1..Len(scheduling) :
            /\ scheduling' = WithoutScheduling(k)
            /\ shutdownTimerState'.secondsRemaining = scheduling[k].delaySeconds
  /\ (/\ shutdownTimerState.isPending
      /\ shutdownTimerState'.isPending
      /\ shutdownTimerState'.secondsRemaining
           # shutdownTimerState.secondsRemaining
      /\ scheduling' = scheduling) =>
       /\ shutdownTimerState'.secondsRemaining
            = shutdownTimerState.secondsRemaining - 1
       /\ shutdownTimerState'.secondsRemaining >= 0
  /\ (/\ shutdownTimerState.isPending
      /\ shutdownTimerState.secondsRemaining = 0
      /\ shutdownTimerState' # shutdownTimerState
      /\ shutdownTimerState'.isPending
      /\ scheduling' = scheduling) =>
       /\ shutdownTimerState'.secondsRemaining = 0
       /\ Cardinality(timers') < Cardinality(timers)

\* C26: arming asks the platform first and starts the countdown at the
\* delay once the platform has answered; the countdown goes down by one
\* at a time and not below 0; and a countdown that is not disarmed reaches
\* 0.
C26_CountdownReachesZero ==
  /\ [][ArmThenCountDown]_vars
  /\ (shutdownTimerState.isPending /\ shutdownTimerState.secondsRemaining > 0)
       ~> (~shutdownTimerState.isPending
           \/ shutdownTimerState.secondsRemaining = 0)

-------------------------------------------------------------------------------
(* The replace naming mode (specification SpecReplace).                     *)

\* The handler waits for compressVideo, called with run.convertToExtension
\* for the current item.
EncoderRunning == run.pc = "encode"

\* The handler waits for moveFile(run.resultPath, run.outputPath).
MoveRunning == run.pc = "move"

\* C28: in the replace naming mode compressVideo is called with the
\* extension of the item it encodes and moveFile moves the encoder's file
\* to the path of that item, whatever extension, destination mode and
\* output folder were chosen before.
C28_ReplaceKeepsSourcePath ==
  config.namingMode = "replace" =>
    /\ EncoderRunning =>
         run.convertToExtension = run.items[run.index].extension
    /\ (EncoderRunning \/ MoveRunning) =>
         run.outputPath = run.items[run.index].path

\* The encoder's file of an mkv item is being moved in the replace mode,
\* after a custom output folder had been chosen.
C28_Witness ==
  /\ config.namingMode = "replace"
  /\ config.outputFolder = PickedFolder
  /\ MoveRunning
  /\ run.resultPath = TempFile
  /\ run.items[run.index].extension = <<"mkv">>
  /\ run.convertToExtension = <<"mkv">>

-------------------------------------------------------------------------------
(* The reset of an accepted start (specification Spec).                     *)

\* The step is an accepted click on Start Batch.
StartAccepted == ~isCompressing /\ isCompressing'

\* C29: an accepted start, whatever the run before it left, resets the
\* list before its loop begins: the copy of the list the loop works on has
\* every item pending with progress 0, no error and no output, and the ids,
\* the paths and the order of the list before the click; the counters are
\* 0, isCompressing is set, isCompleted and cancelRequested are cleared;
\* and the list the step leaves differs from that copy only by the first
\* item, which the same step has started.
C29_StartResetsEverything ==
  [][StartAccepted =>
       /\ Len(run'.items) = Len(items)
       /\ \A k \in 1..Len(items) :
            /\ run'.items[k].id = items[k].id
            /\ run'.items[k].path = items[k].path
            /\ run'.items[k].status = "pending"
            /\ run'.items[k].progress = 0
            /\ run'.items[k].error = Null
            /\ run'.items[k].output = NoOutput
       /\ items' = [run'.items EXCEPT ![1].status = "compressing"]
       /\ currentItemId' = items[1].id
       /\ run'.pc = "info"
       /\ run'.index = 1
       /\ completedCount' = 0
       /\ failedCount' = 0
       /\ skippedCount' = 0
       /\ isCompressing'
       /\ stateIsCompressing'
       /\ ~isCompleted'
       /\ ~cancelRequested']_vars

\* A start accepted after a run that had probed the duration of the second
\* item: the first item is being probed again and the second is pending
\* without an output.
C29_Witness ==
  /\ isCompressing
  /\ run.pc = "info"
  /\ run.index = 1
  /\ Len(items) >= 2
  /\ items[2].durationMilliseconds # NoDuration
  /\ items[2].status = "pending"
  /\ items[2].output = NoOutput
  /\ completedCount = 0

-------------------------------------------------------------------------------
(* The list during a run (specification SpecList).                          *)

\* The ids of the list its, in order.
ItemIds(its) == [k \in 1..Len(its) |-> its[k].id]

\* C30: from the acceptance of a run until its completion no step changes
\* the sequence of item ids of the list, whatever add, remove and clear
\* requests were made, an add request whose file resolution began before
\* the run and finishes during it included.
C30_ListFrozenDuringRun ==
  [][isCompressing => ItemIds(items') = ItemIds(items)]_vars

-------------------------------------------------------------------------------
(* The duration probe (specification SpecProgress).                         *)

\* The step settles the getVideoInfo call of the current item.
ProbeSettled == run.pc = "info" /\ run' # run

\* C31: whatever way the duration probe of an item ends, with a duration,
\* with nothing or with a failure, the item goes on to path resolution and
\* to the encoder: the step that settles the probe calls compressVideo for
\* the same item.
C31_ProbeIsBestEffort ==
  [][ProbeSettled =>
       /\ run'.pc = "encode"
       /\ run'.index = run.index
       /\ items'[run.index].status = "compressing"]_vars

-------------------------------------------------------------------------------
(* resolveUniquePath among collisions (specification SpecCollide).          *)

\* The call followed by pathLoop has returned or thrown.
ResolveDone == pathLoop.pc = "done"

\* The numbers 0..RetryCeiling whose candidate is free, 0 standing for the
\* base path itself.
FreeIndexes ==
  {k \in 0..RetryCeiling : ~pathExists(Candidate(pathLoop.path, k), pathFs)}

SmallestFree == CHOOSE k \in FreeIndexes : \A j \in FreeIndexes : k <= j

\* C32: in the naming modes suffix and prefix resolveUniquePath(p) returns
\* the first free path among p, p_1, p_2, ... up to the retry ceiling, p
\* itself or the one with the smallest free number, and it fails with the
\* too-many-collisions error exactly when p and every candidate up to the
\* retry ceiling exist.
C32_SmallestFreeSuffix ==
  ResolveDone =>
    LET result == pathOut[1]
    IN  /\ result.ok <=> FreeIndexes # {}
        /\ result.ok => result.path = Candidate(pathLoop.path, SmallestFree)
        /\ ~result.ok =>
             result.error = "Error: Too many files with the same name."

-------------------------------------------------------------------------------
(* Stale ticks and overlapping countdowns (specification SpecRearm).        *)

\* cancelSystemShutdown calls that have resolved.
CancelsSucceeded ==
  platformLog.cancelCalls - platformLog.cancelFailures - CancelsInFlight

\* A disarm has succeeded and nothing was armed since.
Disarmed == CancelsSucceeded >= 1 /\ ~shutdownTimerState.isPending

\* C33: after a successful disarm secondsRemaining is null and isPending
\* false, and no step before the next arming, a tick of an interval that
\* is still alive included, changes ShutdownTimerState.
C33_NoTickAfterDisarm ==
  [][Disarmed =>
       /\ shutdownTimerState.secondsRemaining = NullSeconds
       /\ ~shutdownTimerState'.isPending =>
            shutdownTimerState' = shutdownTimerState]_vars

\* The countdown was disarmed while the interval of an earlier arming is
\* alive: its callback will fire.
C33_Witness ==
  /\ Disarmed
  /\ timers # {}
  /\ scheduling = <<>>


\* C35: at most one countdown interval is alive at any time and timerId
\* names it, also when a run arms the shutdown again while the countdown of
\* an earlier arming is still ticking.
C35_OneIntervalAlive ==
  /\ Cardinality(timers) <= 1
  /\ timers # {} => timers = {shutdownTimerState.timerId}

-------------------------------------------------------------------------------
(* One generation at a time (specification SpecPreview).                    *)

\* The handler of the mounted preview component is suspended in a
\* generation.
GenerationRunning == pv.pc # "idle"

\* The step starts a generation: handleGeneratePreview passed its guard and
\* its cache test.
GenerationStarts == pvHist'.gen.n = pvHist.gen.n + 1

\* C34: one preview component has at most one generation in flight.  While
\* its handler is suspended in a generation the isGenerating flag a click
\* reads is set, from the step that starts the generation on, so a request
\* is turned down; no generation starts while another is running, and the
\* only steps that send deletes or render calls for the component are the
\* steps of the generation that is running.
C34_OneGenerationInFlight ==
  [][/\ GenerationRunning => pv.rendered.isGenerating
     /\ GenerationRunning' => pv'.rendered.isGenerating
     /\ GenerationStarts => ~GenerationRunning
     /\ (GenerationRunning /\ PvMounted /\ PvMounted') =>
          /\ pv'.pc = "idle" \/ pv'.sample = pv.sample
          /\ pv'.pc = "idle" \/ pv'.key = pv.key
          /\ pvHist'.renderCalls > pvHist.renderCalls => pv'.pc = "render"
          /\ pvHist'.deleted = pvHist.deleted]_vars

\* A generation is waiting for its second render call while the component
\* is on screen: a click on Preview Quality is turned down.
C34_Witness ==
  /\ PvMounted
  /\ GenerationRunning
  /\ pv.pc = "render"
  /\ pv.idx = 2
  /\ pv.rendered.isGenerating


\* A handler of handleGeneratePreview is suspended in a generation, on the
\* component on screen or on one unmounted meanwhile.
GenerationInFlight == pv.pc # "idle" \/ orphan.pc # "idle"

\* C36: a preview generation and a batch run are never in progress at the
\* same time.
C36_PreviewAndRunExclusive == ~(isCompressing /\ GenerationInFlight)

-------------------------------------------------------------------------------
(* The armed shutdown and the tracked state (specification SpecMode).       *)

\* C37: whenever the platform holds a scheduled shutdown, one that
\* scheduleSystemShutdown armed and no cancelSystemShutdown has cancelled
\* since, isPending is true, whatever was done to the list, the mode and
\* the view.
C37_ArmedShutdownIsTracked == platformArmed => shutdownTimerState.isPending

-------------------------------------------------------------------------------
(* The aggregate counters (specification SpecList).                         *)

\* The number of items of the list its whose status is st.
CountStatus(its, st) == Cardinality({k \in 1..Len(its) : its[k].status = st})

\* C38: completedCount, failedCount and skippedCount are the numbers of
\* items of the list with the status success, failed and skipped, during a
\* run, at its completion and after every later add, remove and clear.
C38_CountersAgreeWithItems ==
  /\ completedCount = CountStatus(items, "success")
  /\ failedCount = CountStatus(items, "failed")
  /\ skippedCount = CountStatus(items, "skipped")

-------------------------------------------------------------------------------
(* The preview cache key (specification SpecKey).                           *)

\* The render calls read off a cache key: one call for each entry of the
\* sample in the batch mode, one call in the single mode where the key has
\* a video path.
RenderCallsOfKey(key) ==
  LET settings(videoPath, convertToExtension, transformsHistory) ==
        [videoPath |-> videoPath,
         convertToExtension |-> convertToExtension,
         presetName |-> key.presetName,
         shouldMuteVideo |-> key.shouldMuteVideo,
         previewSeconds |-> key.previewSeconds,
         quality |-> key.quality,
         dimensions |-> key.dimensions,
         fps |-> IF key.fps = <<>> THEN <<>>
                 ELSE <<NumberToString(key.fps[1])>>,
         transformsHistory |-> transformsHistory]
  IN  IF key.mode = "single"
      THEN IF key.videoPath = <<>> THEN <<>>
           ELSE <<settings(key.videoPath, key.convertToExtension,
                           IF key.transformsHistory = <<>> THEN <<>>
                           ELSE <<key.transformsHistory>>)>>
      ELSE [k \in 1..Len(key.sampleDescriptor) |->
              settings(key.sampleDescriptor[k].path,
                       IF key.namingMode = "replace"
                          \/ key.convertToExtension = "source"
                       THEN key.sampleDescriptor[k].extension
                       ELSE <<key.convertToExtension>>,
                       <<>>)]

\* C39: the arguments of the render calls of a generation, in order, are
\* determined by the cache key of the state the generation starts from (they
\* are what RenderCallsOfKey reads off the key), so two states of the same
\* mode with equal keys issue render calls with identical arguments.
C39_CacheKeyIsSound ==
  keyOut # <<>> => keyOut[1].calls = RenderCallsOfKey(keyOut[1].key)

\* A key shared by several states: the first three of four items are the
\* sample, the quality switch is off with a quality other than the default,
\* the frame rate is custom.
C39_Witness ==
  /\ keyOut # <<>>
  /\ mode = "batch"
  /\ Len(keyIn[1].items) > BATCH_PREVIEW_LIMIT
  /\ Len(keyOut[1].calls) = BATCH_PREVIEW_LIMIT
  /\ ~keyIn[1].config.shouldEnableQuality
  /\ keyIn[1].config.quality = 70
  /\ keyOut[1].calls[1].fps = <<NumberToString(30)>>

-------------------------------------------------------------------------------
(* Merging items (specification SpecMerge).                                 *)

\* The k-th incoming item is new: its path is the path of no existing item
\* and of no earlier incoming item.
IsNewPath(existing, incoming, k) ==
  /\ \A j \in 1..Len(existing) : existing[j].path # incoming[k].path
  /\ \A j \in 1..(k - 1) : incoming[j].path # incoming[k].path

\* The new incoming items from the k-th on, in incoming order.
RECURSIVE NewItemsFrom(_, _, _)
NewItemsFrom(existing, incoming, k) ==
  IF k > Len(incoming) THEN <<>>
  ELSE (IF IsNewPath(existing, incoming, k) THEN <<incoming[k]>> ELSE <<>>)
       \o NewItemsFrom(existing, incoming, k + 1)

\* No two items of the list its have the same path.
NoSharedPath(its) ==
  \A j, k \in 1..Len(its) : its[j].path = its[k].path => j = k

\* C40: mergeBatchItems(existing, incoming) is existing followed by the
\* incoming items whose path is neither in existing nor in an earlier
\* incoming item, in incoming order; if no two existing items share a path,
\* no two merged items do; merging the same incoming list into the result
\* returns the result.
C40_MergeAppendsNewPaths ==
  mergeOut # <<>> =>
    LET existing == mergeIn[1].existing
        incoming == mergeIn[1].incoming
        merged   == mergeOut[1].merged
    IN  /\ merged = existing \o NewItemsFrom(existing, incoming, 1)
        /\ NoSharedPath(existing) => NoSharedPath(merged)
        /\ mergeOut[1].again = merged

\* Of three incoming items the second is in the list already and the third
\* repeats the first: one item was added.
C40_Witness ==
  /\ mergeOut # <<>>
  /\ Len(mergeIn[1].existing) = 1
  /\ Len(mergeIn[1].incoming) = 3
  /\ mergeIn[1].incoming[2].path = mergeIn[1].existing[1].path
  /\ mergeIn[1].incoming[3].path = mergeIn[1].incoming[1].path
  /\ mergeIn[1].incoming[1].path # mergeIn[1].existing[1].path
  /\ Len(mergeOut[1].merged) = 2
  /\ mergeOut[1].merged[2] = mergeIn[1].incoming[1]

==============================================================================
